---- MODULE Spec2Model ----
(***************************************************************************)
(* Model of the ULTY investment tracker (mphinance/ulty-tracker).          *)
(*                                                                         *)
(* Representation.                                                         *)
(*   - A calendar date 'YYYY-MM-DD' is the integer number of the day       *)
(*     counted from 2025-01-01 = 1 (new Date('YYYY-MM-DD') is UTC          *)
(*     midnight of that day, so comparing getTime() values is comparing    *)
(*     day numbers).  The evaluation time `now` is the UTC day number of   *)
(*     new Date(): new Date(div.date) <= new Date() iff div day <= now.    *)
(*   - Money is fixed point, in units of 1/10000 dollar (the dividend      *)
(*     table has four decimals): 0.4653 is 4653, 6.00 is 60000.  A         *)
(*     quotient a / b of the source is the truncated quotient a \div b,    *)
(*     and a / b * 100 is the truncated percentage (a * 100) \div b.       *)
(***************************************************************************)
EXTENDS Integers, Sequences, FiniteSets, TLC

(***************************************************************************)
(* Bounds of the model.                                                    *)
(***************************************************************************)
\* longest transaction list the handlers are allowed to build
MaxTx == 2
\* number of times the clock (Date.now()) advances in one behaviour: it
\* advances when a transaction id is made and when a session is opened
MaxClock == 2
\* longest transaction list handed to the evaluator on its own
MaxEvalTx == 2
\* callbacks that may wait for their answer at the same time
MaxPending == 1
\* user events handled while a callback waits for its answer
MaxOvertake == 1

(***************************************************************************)
(* Calendar of 2025 (not a leap year).                                     *)
(***************************************************************************)
DaysBeforeMonth ==
  <<0, 31, 59, 90, 120, 151, 181, 212, 243, 273, 304, 334, 365>>

\* the day number of 2025-mm-dd
Date(mm, dd) == DaysBeforeMonth[mm] + dd

\* Date.prototype.getMonth() + 1 of a day number (days after 2025-12-31 are
\* in January of the next year)
MonthOf(day) ==
  IF day > 365 THEN 1
  ELSE CHOOSE mm \in 1..12 :
         DaysBeforeMonth[mm] < day /\ day <= DaysBeforeMonth[mm + 1]

\* Date.prototype.getDate() of a day number
DayOfMonth(day) ==
  IF day > 365 THEN day - 365 ELSE day - DaysBeforeMonth[MonthOf(day)]

(***************************************************************************)
(* The JavaScript Date object of dividendSchedule.ts.  An instant is the   *)
(* number of hours since 2025-01-01T00:00Z; the local fields of a Date     *)
(* depend on the time zone of the browser, which is an input of the        *)
(* program read when the module is loaded.                                 *)
(***************************************************************************)
TimeZones == {"UTC", "America/New_York", "Australia/Sydney"}

\* new Date('2025-mm-dd'): UTC midnight of the day
Instant(day) == (day - 1) * 24

\* toISOString().split('T')[0]: the UTC day of an instant
IsoDay(t) == (t \div 24) + 1

\* UTC offset, in hours, in effect at a UTC instant (2025 rules: New York
\* leaves daylight time on Nov 2 at 06:00Z, Sydney enters it on Oct 4 at 16:00Z)
OffsetAtUtc(tz, t) ==
  CASE tz = "UTC" -> 0
    [] tz = "America/New_York" ->
         IF t < Instant(Date(11, 2)) + 6 THEN 0 - 4 ELSE 0 - 5
    [] tz = "Australia/Sydney" ->
         IF t < Instant(Date(10, 4)) + 16 THEN 10 ELSE 11

\* UTC offset in effect at a local wall-clock time (hours since local
\* 2025-01-01T00:00)
OffsetAtLocal(tz, l) ==
  CASE tz = "UTC" -> 0
    [] tz = "America/New_York" ->
         IF l < Instant(Date(11, 2)) + 2 THEN 0 - 4 ELSE 0 - 5
    [] tz = "Australia/Sydney" ->
         IF l < Instant(Date(10, 5)) + 2 THEN 10 ELSE 11

\* the local wall-clock time of an instant
LocalTime(tz, t) == t + OffsetAtUtc(tz, t)

\* currentDate.setDate(currentDate.getDate() + 7): seven local calendar days
\* later at the same local time of day
SetDatePlus7(tz, t) ==
  LET l == LocalTime(tz, t) + 7 * 24
  IN  l - OffsetAtLocal(tz, l)

\* getMonth() + 1 and getDate(): local fields of an instant
GetMonth(tz, t) == MonthOf(IsoDay(LocalTime(tz, t)))
GetDate(tz, t) == DayOfMonth(IsoDay(LocalTime(tz, t)))

(***************************************************************************)
(* data/dividendSchedule.ts                                                *)
(***************************************************************************)
DividendData(day, amt, roc, est) ==
  [date |-> day, amount |-> amt, rocPercentage |-> roc, isEstimated |-> est]

\* the historical table (already ascending, so the trailing sort keeps it)
ULTY_2025_DIVIDENDS ==
  << DividendData(Date(3, 7), 4653, 100, FALSE),
     DividendData(Date(3, 14), 1025, 100, FALSE),
     DividendData(Date(3, 21), 977, 100, FALSE),
     DividendData(Date(3, 28), 986, 100, FALSE),
     DividendData(Date(4, 4), 916, 100, FALSE),
     DividendData(Date(4, 11), 822, 100, FALSE),
     DividendData(Date(4, 21), 852, 100, FALSE),
     DividendData(Date(4, 25), 836, 100, FALSE),
     DividendData(Date(5, 2), 936, 100, FALSE),
     DividendData(Date(5, 9), 1181, 100, FALSE),
     DividendData(Date(5, 16), 1059, 100, FALSE),
     DividendData(Date(5, 23), 979, 100, FALSE),
     DividendData(Date(5, 30), 954, 100, FALSE),
     DividendData(Date(6, 6), 945, 100, FALSE),
     DividendData(Date(6, 13), 950, 100, FALSE),
     DividendData(Date(6, 23), 875, 100, FALSE),
     DividendData(Date(6, 27), 923, 100, FALSE) >>

RECURSIVE SumAmounts(_)
SumAmounts(divs) ==
  IF divs = <<>> THEN 0 ELSE Head(divs).amount + SumAmounts(Tail(divs))

\* a variant that takes the whole table instead of its last six entries
WholeTable(divs) == divs

\* slice(-6)
LastSix(divs) ==
  IF Len(divs) <= 6 THEN divs ELSE SubSeq(divs, Len(divs) - 5, Len(divs))

getAverageOfLastSix ==
  LET lastSix == LastSix(ULTY_2025_DIVIDENDS)
  IN  SumAmounts(lastSix) \div Len(lastSix)

endOfYear == Instant(Date(12, 31))

isHoliday(month, day) ==
  \/ (month = 7 /\ day = 4)
  \/ (month = 11 /\ day >= 25)
  \/ (month = 12 /\ day >= 23)

\* the while loop of generateEstimatedDividends, from currentDate on
RECURSIVE EstimatedFrom(_, _)
EstimatedFrom(tz, currentDate) ==
  IF currentDate > endOfYear THEN <<>>
  ELSE (IF ~isHoliday(GetMonth(tz, currentDate), GetDate(tz, currentDate))
          THEN << DividendData(IsoDay(currentDate), getAverageOfLastSix,
                               100, TRUE) >>
          ELSE <<>>)
       \o EstimatedFrom(tz, SetDatePlus7(tz, currentDate))

generateEstimatedDividends(tz) ==
  LET lastDate ==
        Instant(ULTY_2025_DIVIDENDS[Len(ULTY_2025_DIVIDENDS)].date)
  IN  EstimatedFrom(tz, SetDatePlus7(tz, lastDate))

\* a variant that puts the estimated entries first
EstimatedThenHistorical(tz) ==
  generateEstimatedDividends(tz) \o ULTY_2025_DIVIDENDS

\* the schedule the module exports, built when the module is loaded in a
\* browser of time zone tz
ALL_DIVIDENDS(tz) == ULTY_2025_DIVIDENDS \o generateEstimatedDividends(tz)

(***************************************************************************)
(* hooks/useInvestmentData.ts: the temporal ledger evaluator               *)
(***************************************************************************)
\* null (no investment, no pending callback, no value)
Null == [null |-> TRUE]

Transaction(i, day, ty, qty, pr, amt) ==
  [id |-> i, date |-> day, type |-> ty, quantity |-> qty, price |-> pr,
   amount |-> amt]

\* insertion of one transaction into a list sorted by date, after the
\* transactions of the same date (Array.prototype.sort is stable)
RECURSIVE InsertByDate(_, _)
InsertByDate(t, sorted) ==
  IF sorted = <<>> THEN <<t>>
  ELSE IF t.date < Head(sorted).date THEN <<t>> \o sorted
  ELSE <<Head(sorted)>> \o InsertByDate(t, Tail(sorted))

\* [...transactionList].sort((a, b) => new Date(a.date) - new Date(b.date))
RECURSIVE SortByDate(_)
SortByDate(transactionList) ==
  IF transactionList = <<>> THEN <<>>
  ELSE InsertByDate(transactionList[Len(transactionList)],
                    SortByDate(SubSeq(transactionList, 1,
                                      Len(transactionList) - 1)))

\* a variant that also counts the transactions of the pay date
OccurredBeforeOrOn(transactionDate, divDate) == transactionDate <= divDate

\* the test that decides whether a transaction counts for a dividend
OccurredBefore(transactionDate, divDate) == transactionDate < divDate

\* a variant that forgets the sells
RECURSIVE SharesBoughtBefore(_, _)
SharesBoughtBefore(sortedTransactions, divDate) ==
  IF sortedTransactions = <<>> THEN 0
  ELSE LET transaction == Head(sortedTransactions)
       IN  (IF OccurredBefore(transaction.date, divDate)
                 /\ transaction.type = "buy"
              THEN transaction.quantity
              ELSE 0)
           + SharesBoughtBefore(Tail(sortedTransactions), divDate)

\* the loop "for (const transaction of sortedTransactions)" that sums the
\* shares owned at the time of a dividend
RECURSIVE SharesAtDivDate(_, _)
SharesAtDivDate(sortedTransactions, divDate) ==
  IF sortedTransactions = <<>> THEN 0
  ELSE LET transaction == Head(sortedTransactions)
       IN  (IF OccurredBefore(transaction.date, divDate)
              THEN (IF transaction.type = "buy" THEN transaction.quantity
                    ELSE 0 - transaction.quantity)
              ELSE 0)
           + SharesAtDivDate(Tail(sortedTransactions), divDate)

\* the loop that sums the cost basis at the time of a dividend
RECURSIVE CostBasisAtDivDate(_, _)
CostBasisAtDivDate(sortedTransactions, divDate) ==
  IF sortedTransactions = <<>> THEN 0
  ELSE LET transaction == Head(sortedTransactions)
       IN  (IF OccurredBefore(transaction.date, divDate)
              THEN (IF transaction.type = "buy" THEN transaction.amount
                    ELSE 0 - transaction.amount)
              ELSE 0)
           + CostBasisAtDivDate(Tail(sortedTransactions), divDate)

\* a variant that pays on any share count, positive or not
DistributionAmountUnclamped(sharesAtDivDate, div) ==
  sharesAtDivDate * div.amount

\* distributionAmount of one schedule entry
DistributionAmount(sharesAtDivDate, div) ==
  IF sharesAtDivDate > 0 THEN sharesAtDivDate * div.amount ELSE 0

\* a variant that returns capital on every entry, shares or not
RocPortionPerShare(distributionAmount, div) ==
  (div.amount * div.rocPercentage) \div 100

\* a variant that takes capital back
RocPortionNegated(distributionAmount, div) ==
  0 - ((distributionAmount * div.rocPercentage) \div 100)

\* rocPortion = distributionAmount * (div.rocPercentage / 100)
RocPortion(distributionAmount, div) ==
  (distributionAmount * div.rocPercentage) \div 100

\* a variant that stops the adjusted cost basis at zero
AdjustedCostBasisClamped(costBasis, cumulativeROC) ==
  IF costBasis - cumulativeROC > 0 THEN costBasis - cumulativeROC ELSE 0

\* adjustedCostBasis = costBasisAtDivDate - cumulativeROC in a snapshot and
\* totalCost - cumulativeROC in the investment
AdjustedCostBasis(costBasis, cumulativeROC) == costBasis - cumulativeROC

\* the body of ALL_DIVIDENDS.map((div, index) => ...), from entry index on,
\* with the running cumulativeROC of the entries before it
RECURSIVE DividendsFrom(_, _, _, _)
DividendsFrom(schedule, sortedTransactions, index, cumulativeBefore) ==
  IF index > Len(schedule) THEN <<>>
  ELSE
    LET div == schedule[index]
        sharesAtDivDate == SharesAtDivDate(sortedTransactions, div.date)
        distributionAmount == DistributionAmount(sharesAtDivDate, div)
        rocPortion == RocPortion(distributionAmount, div)
        cumulativeROC == cumulativeBefore + rocPortion
        costBasisAtDivDate ==
          CostBasisAtDivDate(sortedTransactions, div.date)
        adjustedCostBasis ==
          AdjustedCostBasis(costBasisAtDivDate, cumulativeROC)
        breakEvenPrice ==
          IF sharesAtDivDate > 0 THEN adjustedCostBasis \div sharesAtDivDate
          ELSE 0
    IN  << [id |-> index - 1,
            payDate |-> div.date,
            distributionRate |-> div.amount,
            shares |-> sharesAtDivDate,
            distributionAmount |-> distributionAmount,
            rocPercentage |-> div.rocPercentage,
            rocPortion |-> rocPortion,
            cumulativeROC |-> cumulativeROC,
            adjustedCostBasis |-> adjustedCostBasis,
            adjCostBasis |-> breakEvenPrice,
            breakEvenPrice |-> breakEvenPrice,
            isEstimated |-> div.isEstimated] >>
        \o DividendsFrom(schedule, sortedTransactions, index + 1,
                         cumulativeROC)

\* a variant that keeps the snapshots of the entries paid on shares held
calculateDividendsOnSharesHeld(schedule, transactionList) ==
  SelectSeq(DividendsFrom(schedule, SortByDate(transactionList), 1, 0),
            LAMBDA snapshot : snapshot.shares > 0)

calculateDividendsFromTransactions(schedule, transactionList) ==
  DividendsFrom(schedule, SortByDate(transactionList), 1, 0)

\* a variant that counts the dividends not paid yet
RealizedOrFuture(sharesAtDivDate, div, today) == sharesAtDivDate > 0

\* "we owned shares and the dividend has actually been paid"
Realized(sharesAtDivDate, div, today) ==
  sharesAtDivDate > 0 /\ div.date <= today

RECURSIVE TotalDividendsFrom(_, _, _, _)
TotalDividendsFrom(schedule, sortedTransactions, index, today) ==
  IF index > Len(schedule) THEN 0
  ELSE
    LET div == schedule[index]
        sharesAtDivDate == SharesAtDivDate(sortedTransactions, div.date)
    IN  (IF Realized(sharesAtDivDate, div, today)
           THEN sharesAtDivDate * div.amount ELSE 0)
        + TotalDividendsFrom(schedule, sortedTransactions, index + 1, today)

calculateTotalDividendsReceived(schedule, transactionList, today) ==
  TotalDividendsFrom(schedule, SortByDate(transactionList), 1, today)

RECURSIVE CumulativeROCFrom(_, _, _, _)
CumulativeROCFrom(schedule, sortedTransactions, index, today) ==
  IF index > Len(schedule) THEN 0
  ELSE
    LET div == schedule[index]
        sharesAtDivDate == SharesAtDivDate(sortedTransactions, div.date)
    IN  (IF Realized(sharesAtDivDate, div, today)
           THEN RocPortion(sharesAtDivDate * div.amount, div) ELSE 0)
        + CumulativeROCFrom(schedule, sortedTransactions, index + 1, today)

calculateCumulativeROC(schedule, transactionList, today) ==
  CumulativeROCFrom(schedule, SortByDate(transactionList), 1, today)

\* a variant that leaves out the transactions dated at the end of the
\* schedule horizon or later
RECURSIVE TotalSharesBeforeHorizon(_)
TotalSharesBeforeHorizon(updatedTransactions) ==
  IF updatedTransactions = <<>> THEN 0
  ELSE LET t == Head(updatedTransactions)
       IN  (IF t.date >= IsoDay(endOfYear) THEN 0
            ELSE IF t.type = "buy" THEN t.quantity ELSE 0 - t.quantity)
           + TotalSharesBeforeHorizon(Tail(updatedTransactions))

\* updatedTransactions.reduce(...) of quantity and of amount
RECURSIVE TotalShares(_)
TotalShares(updatedTransactions) ==
  IF updatedTransactions = <<>> THEN 0
  ELSE LET t == Head(updatedTransactions)
       IN  (IF t.type = "buy" THEN t.quantity ELSE 0 - t.quantity)
           + TotalShares(Tail(updatedTransactions))

RECURSIVE TotalCost(_)
TotalCost(updatedTransactions) ==
  IF updatedTransactions = <<>> THEN 0
  ELSE LET t == Head(updatedTransactions)
       IN  (IF t.type = "buy" THEN t.amount ELSE 0 - t.amount)
           + TotalCost(Tail(updatedTransactions))

\* a / b * 100 of the source, as a truncated percentage
Percent(a, b) == (a * 100) \div b

\* the Investment object updateInvestmentData builds for a non-empty list,
\* with the currentPrice its closure holds
NewInvestment(schedule, updatedTransactions, price, today) ==
  LET totalShares == TotalShares(updatedTransactions)
      totalCost == TotalCost(updatedTransactions)
      avgPrice == IF totalShares > 0 THEN totalCost \div totalShares ELSE 0
      marketValue == totalShares * price
      capitalGainLoss == marketValue - totalCost
      totalDividendsReceived ==
        calculateTotalDividendsReceived(schedule, updatedTransactions, today)
      cumulativeROC ==
        calculateCumulativeROC(schedule, updatedTransactions, today)
      adjustedCostBasis == AdjustedCostBasis(totalCost, cumulativeROC)
      adjustedCapitalGainLoss == marketValue - adjustedCostBasis
      nonROCDividends == totalDividendsReceived - cumulativeROC
      adjustedTotalProfitLoss == adjustedCapitalGainLoss + nonROCDividends
  IN  [shares |-> totalShares,
       avgPrice |-> avgPrice,
       costBasis |-> totalCost,
       adjustedCostBasis |-> adjustedCostBasis,
       currentPrice |-> price,
       marketValue |-> marketValue,
       capitalGainLoss |-> capitalGainLoss,
       adjustedCapitalGainLoss |-> adjustedCapitalGainLoss,
       totalDividends |-> totalDividendsReceived,
       totalProfitLoss |-> capitalGainLoss + totalDividendsReceived,
       adjustedTotalProfitLoss |-> adjustedTotalProfitLoss,
       roi |-> IF totalCost > 0
                 THEN Percent(capitalGainLoss + totalDividendsReceived,
                              totalCost)
                 ELSE 0,
       adjustedRoi |-> IF adjustedCostBasis > 0
                         THEN Percent(adjustedTotalProfitLoss,
                                      adjustedCostBasis)
                         ELSE 0,
       cumulativeROC |-> cumulativeROC,
       breakEvenPrice |-> IF totalShares > 0
                            THEN adjustedCostBasis \div totalShares
                            ELSE 0]

(***************************************************************************)
(* State of the application.                                               *)
(*   tz, now, clock   the browser: its time zone, the UTC day of           *)
(*                    new Date(), and the reading of Date.now()            *)
(*   schedule         the module constant ALL_DIVIDENDS, built at load     *)
(*   sessionId .. currentPrice   the useState cells of useInvestmentData   *)
(*   refresh, dividendFetch, csvImport   the callbacks waiting for a       *)
(*                    network answer or for the CSV parser: each is null   *)
(*                    or the render (the closure) it was created in        *)
(*   overtaken        the user events handled since a callback started to  *)
(*                    wait (bounds the interleavings)                      *)
(*   lastOp           the event handled last: the handler the user called, *)
(*                    or what the network or the parser answered (history) *)
(*   storage          localStorage: the text stored under each key         *)
(*   loaded           null, or the state the initialisation effect set     *)
(*                    when the page was loaded again from its session      *)
(***************************************************************************)
VARIABLES tz, now, clock, schedule, sessionId, isReadOnly, isPortableMode,
          investment, transactions, dividends, currentPrice,
          refresh, dividendFetch, csvImport, overtaken, lastOp,
          storage, loaded

vars == <<tz, now, clock, schedule, sessionId, isReadOnly, isPortableMode,
          investment, transactions, dividends, currentPrice,
          refresh, dividendFetch, csvImport, overtaken, lastOp,
          storage, loaded>>

browser == <<tz, now, schedule>>
mode == <<isReadOnly, isPortableMode>>
ledger == <<investment, transactions, dividends, currentPrice>>
pending == <<refresh, dividendFetch, csvImport>>

\* the components are on the screen: a page that loaded its session from
\* localStorage has them no more (TransactionHistory calls map on the loaded
\* transactions, which are no array, and React unmounts the tree)
Rendering == loaded = Null

\* the number of callbacks waiting for their answer
Pending ==
  (IF refresh # Null THEN 1 ELSE 0) + (IF dividendFetch # Null THEN 1 ELSE 0)
  + (IF csvImport # Null THEN 1 ELSE 0)

\* a user event that changes the ledger is handled
UserEvent ==
  /\ Rendering
  /\ IF Pending = 0 THEN UNCHANGED overtaken
     ELSE overtaken < MaxOvertake /\ overtaken' = overtaken + 1

\* a callback starts to wait
Wait == Rendering /\ Pending < MaxPending /\ UNCHANGED overtaken

\* a callback got its answer
Answered == overtaken' = IF Pending = 1 THEN 0 ELSE overtaken

\* the values a handler created in the current render closes over
Render ==
  [investment |-> investment, transactions |-> transactions,
   currentPrice |-> currentPrice]

\* the part of the render a waiting callback will read: updateCurrentPrice
\* reads investment, updateDividendData and addTransactionsBatch read
\* transactions and currentPrice
PriceClosure == [investment |-> investment]
LedgerClosure == [transactions |-> transactions, currentPrice |-> currentPrice]

(***************************************************************************)
(* Inputs of the model.                                                    *)
(***************************************************************************)
\* the day of the session: the second pay date
Today == Date(3, 14)

FormData(day, ty, qty, pr) ==
  [date |-> day, type |-> ty, quantity |-> qty, price |-> pr]

\* what the user types in the transaction form
FormInputs ==
  { FormData(Date(1, 1), "buy", 2, 60000),
    FormData(Date(3, 10), "sell", 1, 65000) }

\* prices typed by the user or quoted by the network
Prices == {70000}

\* what the user types in the holdings editor (parseInt(..) || 0: a field
\* left empty is 0)
HoldingShares == {0, 3}
HoldingPrices == {60000}

(***************************************************************************)
(* hooks/useInvestmentData.ts: the handlers.  A handler is a closure: the  *)
(* parameter `render` holds the investment, transactions and currentPrice  *)
(* of the render that created it, while functional updates                 *)
(* (setInvestment(prev => ..)) read the current state.                     *)
(***************************************************************************)
ReadOnly == isReadOnly \/ isPortableMode

\* a variant without the early return for the empty list
updateInvestmentDataOfAnyList(render, updatedTransactions) ==
  IF ReadOnly THEN UNCHANGED <<transactions, investment, dividends>>
  ELSE
    /\ transactions' = updatedTransactions
    /\ dividends' =
         calculateDividendsFromTransactions(schedule, updatedTransactions)
    /\ investment' =
         NewInvestment(schedule, updatedTransactions, render.currentPrice,
                       now)

\* a variant that sorts the list it is given in place
updateInvestmentDataSortingInPlace(render, updatedTransactions) ==
  IF ReadOnly THEN UNCHANGED <<transactions, investment, dividends>>
  ELSE
    /\ transactions' = SortByDate(updatedTransactions)
    /\ IF updatedTransactions = <<>>
         THEN investment' = Null /\ dividends' = <<>>
         ELSE /\ dividends' =
                   calculateDividendsFromTransactions(schedule,
                                                      updatedTransactions)
              /\ investment' =
                   NewInvestment(schedule, updatedTransactions,
                                 render.currentPrice, now)

updateInvestmentData(render, updatedTransactions) ==
  IF ReadOnly THEN UNCHANGED <<transactions, investment, dividends>>
  ELSE
    /\ transactions' = updatedTransactions
    /\ IF updatedTransactions = <<>>
         THEN /\ investment' = Null
              /\ dividends' = <<>>
         ELSE /\ dividends' =
                   calculateDividendsFromTransactions(schedule,
                                                      updatedTransactions)
              /\ investment' =
                   NewInvestment(schedule, updatedTransactions,
                                 render.currentPrice, now)

\* Date.now().toString(); the clock reads 2 when the session starts, so
\* that no id is the '1' of updateHoldings
NowId(ms) == <<ms>>

addTransaction(render, transaction) ==
  IF ReadOnly THEN UNCHANGED ledger
  ELSE
    LET newTransaction ==
          Transaction(NowId(clock), transaction.date, transaction.type,
                      transaction.quantity, transaction.price,
                      transaction.amount)
    IN  /\ updateInvestmentData(render,
                                Append(render.transactions, newTransaction))
        /\ UNCHANGED currentPrice

\* a variant that replaces every transaction, whatever its id
ReplaceEvery(list, id, updatedTransaction) ==
  [i \in 1..Len(list) |->
     Transaction(id, updatedTransaction.date, updatedTransaction.type,
                 updatedTransaction.quantity, updatedTransaction.price,
                 updatedTransaction.amount)]

\* transactions.map(t => t.id === id ? { ...updatedTransaction, id } : t)
ReplaceById(list, id, updatedTransaction) ==
  [i \in 1..Len(list) |->
     IF list[i].id = id
       THEN Transaction(id, updatedTransaction.date, updatedTransaction.type,
                        updatedTransaction.quantity, updatedTransaction.price,
                        updatedTransaction.amount)
       ELSE list[i]]

updateTransaction(render, id, updatedTransaction) ==
  IF ReadOnly THEN UNCHANGED ledger
  ELSE /\ updateInvestmentData(render,
                               ReplaceById(render.transactions, id,
                                           updatedTransaction))
       /\ UNCHANGED currentPrice

\* transactions.filter(t => t.id !== id)
RECURSIVE FilterOutId(_, _)
FilterOutId(list, id) ==
  IF list = <<>> THEN <<>>
  ELSE (IF Head(list).id # id THEN <<Head(list)>> ELSE <<>>)
       \o FilterOutId(Tail(list), id)

removeTransaction(render, id) ==
  IF ReadOnly THEN UNCHANGED ledger
  ELSE /\ updateInvestmentData(render, FilterOutId(render.transactions, id))
       /\ UNCHANGED currentPrice

clearAllTransactions ==
  IF ReadOnly THEN UNCHANGED ledger
  ELSE /\ transactions' = <<>>
       /\ investment' = Null
       /\ dividends' = <<>>
       /\ UNCHANGED currentPrice

\* the id '1' of the transaction updateHoldings builds
HoldingsId == <<1>>

\* a variant that keeps the transactions entered before
updateHoldingsAppending(render, shares, avgPrice) ==
  IF ReadOnly THEN UNCHANGED ledger
  ELSE
    LET newTransaction ==
          Transaction(HoldingsId, now, "buy", shares, avgPrice,
                      shares * avgPrice)
    IN  /\ updateInvestmentData(render,
                                Append(render.transactions, newTransaction))
        /\ UNCHANGED currentPrice

updateHoldings(render, shares, avgPrice) ==
  IF ReadOnly THEN UNCHANGED ledger
  ELSE
    LET costBasis == shares * avgPrice
        newTransaction ==
          Transaction(HoldingsId, now, "buy", shares, avgPrice, costBasis)
    IN  /\ updateInvestmentData(render, <<newTransaction>>)
        /\ UNCHANGED currentPrice

\* a variant whose total profit forgets the dividends
PriceFieldsWithoutDividends(closureInvestment, newPrice) ==
  LET marketValue == closureInvestment.shares * newPrice
      capitalGainLoss == marketValue - closureInvestment.costBasis
      adjustedCapitalGainLoss ==
        marketValue - closureInvestment.adjustedCostBasis
  IN  [currentPrice |-> newPrice,
       marketValue |-> marketValue,
       capitalGainLoss |-> capitalGainLoss,
       adjustedCapitalGainLoss |-> adjustedCapitalGainLoss,
       totalProfitLoss |-> capitalGainLoss,
       adjustedTotalProfitLoss |-> adjustedCapitalGainLoss,
       roi |-> IF closureInvestment.costBasis > 0
                 THEN Percent(capitalGainLoss, closureInvestment.costBasis)
                 ELSE 0,
       adjustedRoi |-> IF closureInvestment.adjustedCostBasis > 0
                         THEN Percent(adjustedCapitalGainLoss,
                                      closureInvestment.adjustedCostBasis)
                         ELSE 0]

\* a variant that divides by any denominator other than zero
PriceFieldsOverNonZero(closureInvestment, newPrice) ==
  LET marketValue == closureInvestment.shares * newPrice
      capitalGainLoss == marketValue - closureInvestment.costBasis
      adjustedCapitalGainLoss ==
        marketValue - closureInvestment.adjustedCostBasis
      totalProfitLoss == capitalGainLoss + closureInvestment.totalDividends
      nonROCDividends ==
        closureInvestment.totalDividends - closureInvestment.cumulativeROC
      adjustedTotalProfitLoss == adjustedCapitalGainLoss + nonROCDividends
  IN  [currentPrice |-> newPrice,
       marketValue |-> marketValue,
       capitalGainLoss |-> capitalGainLoss,
       adjustedCapitalGainLoss |-> adjustedCapitalGainLoss,
       totalProfitLoss |-> totalProfitLoss,
       adjustedTotalProfitLoss |-> adjustedTotalProfitLoss,
       roi |-> IF closureInvestment.costBasis # 0
                 THEN Percent(totalProfitLoss, closureInvestment.costBasis)
                 ELSE 0,
       adjustedRoi |-> IF closureInvestment.adjustedCostBasis # 0
                         THEN Percent(adjustedTotalProfitLoss,
                                      closureInvestment.adjustedCostBasis)
                         ELSE 0]

\* the fields updateCurrentPrice computes from the investment of its closure
PriceFields(closureInvestment, newPrice) ==
  LET marketValue == closureInvestment.shares * newPrice
      capitalGainLoss == marketValue - closureInvestment.costBasis
      adjustedCapitalGainLoss ==
        marketValue - closureInvestment.adjustedCostBasis
      totalProfitLoss == capitalGainLoss + closureInvestment.totalDividends
      nonROCDividends ==
        closureInvestment.totalDividends - closureInvestment.cumulativeROC
      adjustedTotalProfitLoss == adjustedCapitalGainLoss + nonROCDividends
  IN  [currentPrice |-> newPrice,
       marketValue |-> marketValue,
       capitalGainLoss |-> capitalGainLoss,
       adjustedCapitalGainLoss |-> adjustedCapitalGainLoss,
       totalProfitLoss |-> totalProfitLoss,
       adjustedTotalProfitLoss |-> adjustedTotalProfitLoss,
       roi |-> IF closureInvestment.costBasis > 0
                 THEN Percent(totalProfitLoss, closureInvestment.costBasis)
                 ELSE 0,
       adjustedRoi |-> IF closureInvestment.adjustedCostBasis > 0
                         THEN Percent(adjustedTotalProfitLoss,
                                      closureInvestment.adjustedCostBasis)
                         ELSE 0]

\* { ...prev, field: value, ... }
SpreadOver(prev, fields) ==
  [f \in DOMAIN prev |-> IF f \in DOMAIN fields THEN fields[f] ELSE prev[f]]

\* a variant that spreads the investment of the closure instead of the
\* current one (setInvestment({...investment, ..}))
updateCurrentPriceFromClosure(render, newPrice) ==
  IF ReadOnly THEN UNCHANGED ledger
  ELSE
    /\ currentPrice' = newPrice
    /\ IF render.investment # Null
         THEN investment' =
                SpreadOver(render.investment,
                           PriceFields(render.investment, newPrice))
         ELSE UNCHANGED investment
    /\ UNCHANGED <<transactions, dividends>>

updateCurrentPrice(render, newPrice) ==
  IF ReadOnly THEN UNCHANGED ledger
  ELSE
    /\ currentPrice' = newPrice
    /\ IF render.investment # Null
         THEN investment' =
                (IF investment # Null
                   THEN SpreadOver(investment,
                                   PriceFields(render.investment, newPrice))
                   ELSE Null)
         ELSE UNCHANGED investment
    /\ UNCHANGED <<transactions, dividends>>

\* newCurrentPrice is 0 when the quote carried no price (undefined)
updateDividendData(render, newDividends, newCurrentPrice) ==
  IF ReadOnly THEN UNCHANGED ledger
  ELSE
    /\ IF newCurrentPrice # 0 /\ newCurrentPrice > 0
         THEN currentPrice' = newCurrentPrice
         ELSE UNCHANGED currentPrice
    /\ IF Len(render.transactions) > 0
         THEN updateInvestmentData(render, render.transactions)
         ELSE UNCHANGED <<transactions, investment, dividends>>

\* `${Date.now()}-${index}`
BatchId(ms, index) == <<ms, index>>

addTransactionsBatch(render, newTransactions) ==
  IF ReadOnly THEN UNCHANGED ledger
  ELSE
    LET transactionsWithIds ==
          [i \in 1..Len(newTransactions) |->
             Transaction(BatchId(clock, i - 1), newTransactions[i].date,
                         newTransactions[i].type, newTransactions[i].quantity,
                         newTransactions[i].price, newTransactions[i].amount)]
    IN  /\ updateInvestmentData(render,
                                render.transactions \o transactionsWithIds)
        /\ UNCHANGED currentPrice

\* a variant without the early return of a read-only page
createNewSessionInAnyMode ==
  /\ sessionId' = sessionId + 1
  /\ transactions' = <<>>
  /\ investment' = Null
  /\ dividends' = <<>>
  /\ UNCHANGED currentPrice

\* SessionManager.createNewSession() hands out a fresh session id
createNewSession ==
  IF ReadOnly THEN UNCHANGED <<sessionId, ledger>>
  ELSE /\ sessionId' = sessionId + 1
       /\ transactions' = <<>>
       /\ investment' = Null
       /\ dividends' = <<>>
       /\ UNCHANGED currentPrice

(***************************************************************************)
(* localStorage.  A key is the sequence of its words between the           *)
(* underscores and an item is the text stored under it; a text is the      *)
(* JavaScript value it encodes.  A JavaScript value carries its type: an   *)
(* array and the object that has the same entries are different values.    *)
(***************************************************************************)
INVESTMENT == <<"ulty", "investment">>
TRANSACTIONS == <<"ulty", "transactions">>
DIVIDENDS == <<"ulty", "dividends">>
CURRENT_PRICE == <<"ulty", "current", "price">>
STORAGE_KEYS == {INVESTMENT, TRANSACTIONS, DIVIDENDS, CURRENT_PRICE}

\* `${baseKey}_${sessionId}`
getStorageKey(baseKey, id) == Append(baseKey, ToString(id))

JsNumber(n) == [type |-> "number", value |-> n]
NaN == [type |-> "NaN"]
JsObject(fields) == [type |-> "object", value |-> fields]
JsArray(items) == [type |-> "array", value |-> items]

JSONstringify(data) == [json |-> data]
JSONparse(text) == text.json

\* the number a text starts with; the text of an object starts with a brace
parseFloat(text) == IF text.json.type = "number" THEN text.json ELSE NaN

\* StorageManager.compressData: { ...data, lastModified } is an object
\* whatever data was, with the entries of data (the elements of an array
\* under their indices) and the time of the call, new Date(), which is read
\* to the day as everywhere else
compressData(data, time) ==
  JSONstringify([type |-> "object", value |-> data.value,
                 lastModified |-> time])

setItem(items, key, text) == (key :> text) @@ items
removeItem(items, key) == [k \in DOMAIN items \ {key} |-> items[k]]
getItem(items, key) == IF key \in DOMAIN items THEN items[key] ELSE Null

\* the three localStorage.removeItem calls of clearAllTransactions
removeSessionItems ==
  IF ReadOnly THEN storage
  ELSE removeItem(
         removeItem(
           removeItem(storage, getStorageKey(INVESTMENT, sessionId)),
           getStorageKey(TRANSACTIONS, sessionId)),
         getStorageKey(DIVIDENDS, sessionId))

\* the items of a session whose four values were all saved at one time
SavedSession(items, id, price, savedInvestment, list, snapshots, time) ==
  LET withPrice ==
        setItem(items, getStorageKey(CURRENT_PRICE, id),
                compressData(JsObject([currentPrice |-> price]), time))
      withInvestment ==
        IF savedInvestment # Null
          THEN setItem(withPrice, getStorageKey(INVESTMENT, id),
                       compressData(JsObject(savedInvestment), time))
          ELSE withPrice
      withTransactions ==
        setItem(withInvestment, getStorageKey(TRANSACTIONS, id),
                compressData(JsArray(list), time))
  IN  setItem(withTransactions, getStorageKey(DIVIDENDS, id),
              compressData(JsArray(snapshots), time))

\* what StorageManager.getULTYSessions reads of an item: its key and its
\* time.  The model keeps no more of the items of a session the page has
\* left, which nothing else reads.
KeyAndTime(items) ==
  [k \in DOMAIN items |->
     IF Head(k) = "ulty"
       THEN JSONstringify([type |-> "object",
                           lastModified |-> JSONparse(items[k]).lastModified])
       ELSE items[k]]

\* The four effects that save the state: each runs after a render in which
\* one of its dependencies changed, and writes when the session is
\* editable.  afterHandler is localStorage as the handler left it.  A value
\* a handler set to what it was already is not written again (only the
\* time of its item would change).
SaveEffects(afterHandler) ==
  LET editable == ~isReadOnly' /\ ~isPortableMode'
      otherSession == sessionId' # sessionId
      items == IF otherSession THEN KeyAndTime(afterHandler)
               ELSE afterHandler
      withPrice ==
        IF editable /\ (otherSession \/ currentPrice' # currentPrice)
          THEN setItem(items,
                       getStorageKey(CURRENT_PRICE, sessionId'),
                       compressData(JsObject([currentPrice |->
                                                currentPrice']), now))
          ELSE items
      withInvestment ==
        IF editable /\ investment' # Null
           /\ (otherSession \/ investment' # investment)
          THEN setItem(withPrice, getStorageKey(INVESTMENT, sessionId'),
                       compressData(JsObject(investment'), now))
          ELSE withPrice
      withTransactions ==
        IF editable /\ (otherSession \/ transactions' # transactions)
          THEN setItem(withInvestment,
                       getStorageKey(TRANSACTIONS, sessionId'),
                       compressData(JsArray(transactions'), now))
          ELSE withInvestment
      withDividends ==
        IF editable /\ (otherSession \/ dividends' # dividends)
          THEN setItem(withTransactions,
                       getStorageKey(DIVIDENDS, sessionId'),
                       compressData(JsArray(dividends'), now))
          ELSE withTransactions
  IN  storage' = withDividends

(***************************************************************************)
(* services/polygonService.ts and services/dividendUpdateService.ts.  The  *)
(* answer of one HTTP exchange is its payload, or Failed: fetch rejected,  *)
(* the status was not ok, or the payload was unusable; the try/catch of    *)
(* each service turns all of these into a result value.  An undefined      *)
(* price is 0 (both are falsy in the one test made of it) and an undefined *)
(* list is empty (`|| []`).                                                *)
(***************************************************************************)
Failed == [ok |-> FALSE]
PriceAnswer(p) == [ok |-> TRUE, price |-> p]
DividendsAnswer(list) == [ok |-> TRUE, results |-> list]

\* a variant that answers a price of its own when the request failed
getCurrentPriceOrDefault(prevAnswer) ==
  [success |-> TRUE,
   data |-> [price |-> IF prevAnswer.ok THEN prevAnswer.price ELSE 62300]]

getCurrentPrice(prevAnswer) ==
  IF prevAnswer.ok
    THEN [success |-> TRUE, data |-> [price |-> prevAnswer.price]]
    ELSE [success |-> FALSE, data |-> Null]

\* the real-time quote, falling back to the previous close
getRealTimeQuote(nbboAnswer, prevAnswer) ==
  IF nbboAnswer.ok
    THEN [success |-> TRUE, data |-> [price |-> nbboAnswer.price]]
    ELSE getCurrentPrice(prevAnswer)

getDividends(dividendsAnswer) ==
  IF dividendsAnswer.ok
    THEN [success |-> TRUE, data |-> dividendsAnswer.results]
    ELSE [success |-> FALSE, data |-> <<>>]

getStockData(nbboAnswer, prevAnswer, dividendsAnswer) ==
  LET priceResult == getRealTimeQuote(nbboAnswer, prevAnswer)
      dividendResult == getDividends(dividendsAnswer)
  IN  IF ~priceResult.success /\ ~dividendResult.success
        THEN [success |-> FALSE, price |-> Null, dividends |-> <<>>]
        ELSE [success |-> TRUE, price |-> priceResult.data,
              dividends |-> dividendResult.data]

\* DividendUpdateService.fetchLatestDividends
fetchLatestDividends(nbboAnswer, prevAnswer, dividendsAnswer) ==
  LET result == getStockData(nbboAnswer, prevAnswer, dividendsAnswer)
  IN  IF ~result.success
        THEN [success |-> FALSE, data |-> <<>>, currentPrice |-> 0]
        ELSE [success |-> TRUE,
              data |-> [i \in 1..Len(result.dividends) |->
                          [date |-> result.dividends[i].paymentDate,
                           amount |-> result.dividends[i].amount]],
              currentPrice |-> IF result.price # Null
                                 THEN result.price.price ELSE 0]

\* what the network can answer to a quote request (on either endpoint)
PriceAnswers == { PriceAnswer(p) : p \in Prices } \cup {Failed}

\* the answers to the three requests of a dividend fetch (real-time quote,
\* previous close, dividends): nothing, a quote only, dividends only, and
\* dividends with the quote of the fallback
DividendExchanges ==
  LET paid == DividendsAnswer(<<[paymentDate |-> Date(3, 21),
                                 amount |-> 977]>>)
  IN  { <<Failed, Failed, Failed>>, <<Failed, Failed, paid>> }
      \cup { <<PriceAnswer(p), Failed, Failed>> : p \in Prices }
      \cup { <<Failed, PriceAnswer(p), paid>> : p \in Prices }

(***************************************************************************)
(* The events of the user interface.                                       *)
(***************************************************************************)
\* TransactionHistory.handleSubmit: the amount is quantity * price
WithAmount(formData) ==
  [date |-> formData.date, type |-> formData.type,
   quantity |-> formData.quantity, price |-> formData.price,
   amount |-> formData.quantity * formData.price]

SubmitAdd(formData) ==
  /\ ~ReadOnly
  /\ UserEvent
  /\ Len(transactions) < MaxTx
  /\ clock <= MaxClock + 1
  /\ addTransaction(Render, WithAmount(formData))
  /\ clock' = clock + 1
  /\ lastOp' = "addTransaction"
  /\ UNCHANGED <<browser, loaded, sessionId, mode, pending>>
  /\ SaveEffects(storage)

SubmitEdit(editingId, formData) ==
  /\ ~ReadOnly
  /\ UserEvent
  /\ \E i \in 1..Len(transactions) : transactions[i].id = editingId
  /\ updateTransaction(Render, editingId, WithAmount(formData))
  /\ lastOp' = "updateTransaction"
  /\ UNCHANGED <<browser, loaded, clock, sessionId, mode, pending>>
  /\ SaveEffects(storage)

Remove(id) ==
  /\ ~ReadOnly
  /\ UserEvent
  /\ \E i \in 1..Len(transactions) : transactions[i].id = id
  /\ removeTransaction(Render, id)
  /\ lastOp' = "removeTransaction"
  /\ UNCHANGED <<browser, loaded, clock, sessionId, mode, pending>>
  /\ SaveEffects(storage)

ClearAll ==
  /\ ~ReadOnly
  /\ UserEvent
  /\ transactions # <<>>
  /\ clearAllTransactions
  /\ lastOp' = "clearAllTransactions"
  /\ UNCHANGED <<browser, loaded, clock, sessionId, mode, pending>>
  /\ SaveEffects(removeSessionItems)

\* InvestmentSummary.handleSaveHoldings: the editor is shown with an
\* investment only
SaveHoldings(shares, avgPrice) ==
  /\ ~ReadOnly
  /\ UserEvent
  /\ investment # Null
  /\ updateHoldings(Render, shares, avgPrice)
  /\ lastOp' = "updateHoldings"
  /\ UNCHANGED <<browser, loaded, clock, sessionId, mode, pending>>
  /\ SaveEffects(storage)

\* PriceUpdater.handleManualUpdate
ManualPriceUpdate(editPrice) ==
  /\ ~ReadOnly
  /\ UserEvent
  /\ editPrice > 0
  /\ updateCurrentPrice(Render, editPrice)
  /\ lastOp' = "updateCurrentPrice"
  /\ UNCHANGED <<browser, loaded, clock, sessionId, mode, pending>>
  /\ SaveEffects(storage)

\* PriceUpdater.handleRefresh up to its await: the callback keeps the
\* onPriceUpdate of this render
StartRefresh ==
  /\ ~ReadOnly
  /\ Wait
  /\ refresh = Null
  /\ refresh' = PriceClosure
  /\ lastOp' = "handleRefresh"
  /\ UNCHANGED <<browser, loaded, clock, sessionId, mode, ledger, dividendFetch,
                 csvImport>>
  /\ SaveEffects(storage)

\* PriceUpdater.handleRefresh after its await, the network having answered
\* the two quote requests
CompleteRefresh(nbboAnswer, prevAnswer) ==
  /\ refresh # Null
  /\ Answered
  /\ LET result == getRealTimeQuote(nbboAnswer, prevAnswer)
     IN  IF result.success /\ result.data # Null
           THEN updateCurrentPrice(refresh, result.data.price)
           ELSE UNCHANGED ledger
  /\ lastOp' = IF nbboAnswer.ok \/ prevAnswer.ok THEN "refreshAnswered"
               ELSE "refreshFailed"
  /\ refresh' = Null
  /\ UNCHANGED <<browser, loaded, clock, sessionId, mode, dividendFetch,
                 csvImport>>
  /\ SaveEffects(storage)

\* DividendUpdateModal.handleAutoUpdate up to its await; the modal is part
\* of DividendSchedule, which is rendered when there are dividends
StartDividendFetch ==
  /\ ~ReadOnly
  /\ Wait
  /\ dividends # <<>>
  /\ dividendFetch = Null
  /\ dividendFetch' = LedgerClosure
  /\ lastOp' = "handleAutoUpdate"
  /\ UNCHANGED <<browser, loaded, clock, sessionId, mode, ledger, refresh,
                 csvImport>>
  /\ SaveEffects(storage)

\* DividendUpdateModal.handleAutoUpdate after its await, the network having
\* answered the three requests (result.data is an array, hence truthy,
\* whenever the service succeeded)
CompleteDividendFetch(nbboAnswer, prevAnswer, dividendsAnswer) ==
  /\ dividendFetch # Null
  /\ Answered
  /\ LET result ==
           fetchLatestDividends(nbboAnswer, prevAnswer, dividendsAnswer)
     IN  IF result.success
           THEN updateDividendData(dividendFetch, result.data,
                                   result.currentPrice)
           ELSE UNCHANGED ledger
  /\ lastOp' = IF nbboAnswer.ok \/ prevAnswer.ok \/ dividendsAnswer.ok
                 THEN "dividendsAnswered"
                 ELSE "dividendFetchFailed"
  /\ dividendFetch' = Null
  /\ UNCHANGED <<browser, loaded, clock, sessionId, mode, refresh, csvImport>>
  /\ SaveEffects(storage)

\* DividendUpdateModal.handleManualUpdate with one valid dividend typed in
\* and the price field holding newPrice
ManualDividendUpdate(newPrice) ==
  /\ ~ReadOnly
  /\ UserEvent
  /\ dividends # <<>>
  /\ updateDividendData(Render, <<[date |-> now, amount |-> 977]>>, newPrice)
  /\ lastOp' = "updateDividendData"
  /\ UNCHANGED <<browser, loaded, clock, sessionId, mode, pending>>
  /\ SaveEffects(storage)

\* one row of a CSV file as Papa.parse hands it over (header: true)
CsvRow(day, ty, qty, pr) ==
  [date |-> day, type |-> ty, quantity |-> qty, price |-> pr]

\* the validation of one row in the complete callback of processCsvData;
\* an empty cell is "" for the type and 0 for a number
RowIsValid(row) ==
  /\ row.date # 0 /\ row.type # "" /\ row.quantity # 0 /\ row.price # 0
  /\ row.type \in {"buy", "sell"}
  /\ row.quantity > 0
  /\ row.price > 0

RECURSIVE ValidTransactions(_)
ValidTransactions(rows) ==
  IF rows = <<>> THEN <<>>
  ELSE (IF RowIsValid(Head(rows))
          THEN << [date |-> Head(rows).date, type |-> Head(rows).type,
                   quantity |-> Head(rows).quantity,
                   price |-> Head(rows).price,
                   amount |-> Head(rows).quantity * Head(rows).price] >>
          ELSE <<>>)
       \o ValidTransactions(Tail(rows))

\* the CSV files of the model: a good row, two good rows, and a good row
\* with a bad one
CsvInputs ==
  { << CsvRow(Date(3, 7), "buy", 1, 60000) >>,
    << CsvRow(Date(1, 1), "buy", 2, 60000),
       CsvRow(Date(3, 10), "sell", 1, 65000) >>,
    << CsvRow(Date(3, 7), "buy", 1, 60000),
       CsvRow(Date(3, 10), "sell", 0, 65000) >> }

\* TransactionHistory.processCsvData up to the call of Papa.parse, which
\* reads the file and calls `complete` later
StartCsvImport(rows) ==
  /\ ~ReadOnly
  /\ Wait
  /\ csvImport = Null
  /\ Len(transactions) + Len(rows) <= MaxTx
  /\ csvImport' = [render |-> LedgerClosure, rows |-> rows]
  /\ lastOp' = "processCsvData"
  /\ UNCHANGED <<browser, loaded, clock, sessionId, mode, ledger, refresh,
                 dividendFetch>>
  /\ SaveEffects(storage)

\* a variant that imports the rows that passed and drops the others
CompleteCsvImportOfValidRows ==
  /\ csvImport # Null
  /\ Answered
  /\ clock <= MaxClock + 1
  /\ LET validTransactions == ValidTransactions(csvImport.rows)
     IN  IF validTransactions = <<>>
           THEN /\ UNCHANGED <<ledger, clock>>
                /\ lastOp' = "importFailed"
           ELSE /\ addTransactionsBatch(csvImport.render, validTransactions)
                /\ clock' = clock + 1
                /\ lastOp' = "addTransactionsBatch"
  /\ csvImport' = Null
  /\ UNCHANGED <<browser, loaded, sessionId, mode, refresh, dividendFetch>>
  /\ SaveEffects(storage)

\* the complete callback of processCsvData: all rows or none
CompleteCsvImport ==
  /\ csvImport # Null
  /\ Answered
  /\ clock <= MaxClock + 1
  /\ LET validTransactions == ValidTransactions(csvImport.rows)
     IN  IF Len(validTransactions) < Len(csvImport.rows)
              \/ validTransactions = <<>>
           THEN /\ UNCHANGED <<ledger, clock>>
                /\ lastOp' = "importFailed"
           ELSE /\ addTransactionsBatch(csvImport.render, validTransactions)
                /\ clock' = clock + 1
                /\ lastOp' = "addTransactionsBatch"
  /\ csvImport' = Null
  /\ UNCHANGED <<browser, loaded, sessionId, mode, refresh, dividendFetch>>
  /\ SaveEffects(storage)

\* the "new session" button of the SessionManager component
NewSession ==
  /\ ~ReadOnly
  /\ UserEvent
  /\ clock <= MaxClock + 1
  /\ createNewSession
  /\ clock' = clock + 1
  /\ lastOp' = "createNewSession"
  /\ UNCHANGED <<browser, loaded, mode, pending>>
  /\ SaveEffects(storage)

\* time zones of the browsers that run a session
SessionTimeZones == {"UTC"}

Init ==
  /\ tz \in SessionTimeZones
  /\ now = Today
  /\ clock = 2
  /\ schedule = ALL_DIVIDENDS(tz)
  /\ sessionId = 1
  /\ isReadOnly = FALSE
  /\ isPortableMode = FALSE
  /\ investment = Null
  /\ transactions = <<>>
  /\ dividends = <<>>
  /\ currentPrice = 62300
  /\ refresh = Null
  /\ dividendFetch = Null
  /\ csvImport = Null
  /\ overtaken = 0
  /\ lastOp = "init"
  /\ storage = SavedSession(<<>>, sessionId, currentPrice, investment,
                            transactions, dividends, now)
  /\ loaded = Null

Next ==
  \/ \E formData \in FormInputs : SubmitAdd(formData)
  \/ \E i \in 1..Len(transactions), formData \in FormInputs :
       SubmitEdit(transactions[i].id, formData)
  \/ \E i \in 1..Len(transactions) : Remove(transactions[i].id)
  \/ ClearAll
  \/ \E shares \in HoldingShares, avgPrice \in HoldingPrices :
       SaveHoldings(shares, avgPrice)
  \/ \E editPrice \in Prices : ManualPriceUpdate(editPrice)
  \/ StartRefresh
  \/ \E nbboAnswer \in PriceAnswers, prevAnswer \in PriceAnswers :
       CompleteRefresh(nbboAnswer, prevAnswer)
  \/ StartDividendFetch
  \/ \E exchange \in DividendExchanges :
       CompleteDividendFetch(exchange[1], exchange[2], exchange[3])
  \/ \E newPrice \in Prices \cup {0} : ManualDividendUpdate(newPrice)
  \/ \E rows \in CsvInputs : StartCsvImport(rows)
  \/ CompleteCsvImport
  \/ NewSession

Spec == Init /\ [][Next]_vars

(***************************************************************************)
(* Pages opened from a link, and the housekeeping of localStorage.  A      *)
(* portable link carries the portfolio in its `data` parameter, a          *)
(* read-only link names a snapshot kept in localStorage, and the link of a *)
(* session names the session whose items the page loads.                   *)
(***************************************************************************)
\* DataCompression.compressForURL (`||`: a price of 0 is replaced)
compressForURL(data) ==
  [i |-> IF data.investment # Null
           THEN [s |-> data.investment.shares,
                 ap |-> data.investment.avgPrice,
                 cp |-> data.investment.currentPrice,
                 cb |-> data.investment.costBasis,
                 acb |-> data.investment.adjustedCostBasis,
                 mv |-> data.investment.marketValue,
                 td |-> data.investment.totalDividends,
                 cr |-> data.investment.cumulativeROC,
                 bp |-> data.investment.breakEvenPrice]
           ELSE Null,
   t |-> [k \in 1..Len(data.transactions) |->
            << data.transactions[k].date,
               IF data.transactions[k].type = "buy" THEN 1 ELSE 0,
               data.transactions[k].quantity,
               data.transactions[k].price >>],
   cp |-> IF data.currentPrice # 0 THEN data.currentPrice ELSE 62300]

\* index.toString(), the index counted from 0
IndexId(index) == <<index>>

\* DataCompression.decompressFromURL
decompressFromURL(compressed) ==
  [investment |->
     IF compressed.i # Null
       THEN LET i == compressed.i
            IN  [shares |-> i.s,
                 avgPrice |-> i.ap,
                 currentPrice |-> i.cp,
                 costBasis |-> i.cb,
                 adjustedCostBasis |-> i.acb,
                 marketValue |-> i.mv,
                 capitalGainLoss |-> i.mv - i.cb,
                 adjustedCapitalGainLoss |-> i.mv - i.acb,
                 totalDividends |-> i.td,
                 totalProfitLoss |-> (i.mv - i.cb) + i.td,
                 adjustedTotalProfitLoss |->
                   (i.mv - i.acb) + (i.td - i.cr),
                 roi |-> IF i.cb > 0
                           THEN Percent((i.mv - i.cb) + i.td, i.cb)
                           ELSE 0,
                 adjustedRoi |->
                   IF i.acb > 0
                     THEN Percent((i.mv - i.acb) + (i.td - i.cr), i.acb)
                     ELSE 0,
                 cumulativeROC |-> i.cr,
                 breakEvenPrice |-> i.bp]
       ELSE Null,
   transactions |->
     [k \in 1..Len(compressed.t) |->
        Transaction(IndexId(k - 1), compressed.t[k][1],
                    IF compressed.t[k][2] = 1 THEN "buy" ELSE "sell",
                    compressed.t[k][3], compressed.t[k][4],
                    compressed.t[k][3] * compressed.t[k][4])],
   currentPrice |-> compressed.cp,
   dividends |-> <<>>]

\* the portfolio the page hands to a link
Portfolio ==
  [investment |-> investment, transactions |-> transactions,
   dividends |-> dividends, currentPrice |-> currentPrice]

\* the session id of a page opened from a portable link ('portable')
PortableSessionId == 0

\* getPortableURL, and the initialisation effect of the page the link opens
OpenPortableLink ==
  /\ ~ReadOnly
  /\ Rendering
  /\ LET portableData == decompressFromURL(compressForURL(Portfolio))
     IN  /\ isPortableMode' = TRUE
         /\ isReadOnly' = TRUE
         /\ sessionId' = PortableSessionId
         /\ currentPrice' = IF portableData.currentPrice # 0
                              THEN portableData.currentPrice
                              ELSE 62300
         /\ investment' = portableData.investment
         /\ transactions' = portableData.transactions
         /\ dividends' = portableData.dividends
  /\ refresh' = Null
  /\ dividendFetch' = Null
  /\ csvImport' = Null
  /\ overtaken' = 0
  /\ lastOp' = "portableLink"
  /\ UNCHANGED <<browser, loaded, clock>>
  /\ SaveEffects(storage)

READONLY_SNAPSHOT == <<"readonly", "snapshot">>

\* SessionManager.createReadOnlyURL: the snapshot is stored as it is
createReadOnlyURL(items, readOnlyId, portfolioData) ==
  setItem(items, getStorageKey(READONLY_SNAPSHOT, readOnlyId),
          JSONstringify(JsObject(portfolioData)))

\* SessionManager.getReadOnlySnapshot
getReadOnlySnapshot(items, viewId) ==
  LET snapshot == getItem(items, getStorageKey(READONLY_SNAPSHOT, viewId))
  IN  IF snapshot # Null THEN JSONparse(snapshot).value ELSE Null

\* getReadOnlyShareableURL, and the initialisation effect of the page the
\* link opens; the id of the snapshot is a fresh session id
OpenReadOnlyLink ==
  /\ ~ReadOnly
  /\ Rendering
  /\ LET readOnlyId == sessionId + 1
         withSnapshot == createReadOnlyURL(storage, readOnlyId, Portfolio)
         snapshot == getReadOnlySnapshot(withSnapshot, readOnlyId)
     IN  /\ sessionId' = readOnlyId
         /\ isReadOnly' = TRUE
         /\ isPortableMode' = FALSE
         /\ IF snapshot # Null
              THEN /\ currentPrice' = IF snapshot.currentPrice # 0
                                        THEN snapshot.currentPrice
                                        ELSE 62300
                   /\ investment' = snapshot.investment
                   /\ transactions' = snapshot.transactions
                   /\ dividends' = snapshot.dividends
              ELSE /\ currentPrice' = 62300
                   /\ investment' = Null
                   /\ transactions' = <<>>
                   /\ dividends' = <<>>
         /\ refresh' = Null
         /\ dividendFetch' = Null
         /\ csvImport' = Null
         /\ overtaken' = 0
         /\ lastOp' = "readOnlyLink"
         /\ UNCHANGED <<browser, loaded, clock>>
         /\ SaveEffects(withSnapshot)

\* the state the initialisation effect sets from the items of an editable
\* session: the price through parseFloat, the rest through JSON.parse; the
\* loaded transactions are evaluated when no investment was saved and
\* their `length` is above 0, which only an array has
LoadSession(items, id) ==
  LET savedPrice == getItem(items, getStorageKey(CURRENT_PRICE, id))
      savedInvestment == getItem(items, getStorageKey(INVESTMENT, id))
      savedTransactions == getItem(items, getStorageKey(TRANSACTIONS, id))
      savedDividends == getItem(items, getStorageKey(DIVIDENDS, id))
      loadedTransactions ==
        IF savedTransactions # Null THEN JSONparse(savedTransactions)
        ELSE JsArray(<<>>)
      evaluated ==
        /\ savedInvestment = Null
        /\ loadedTransactions.type = "array"
        /\ Len(loadedTransactions.value) > 0
  IN  [currentPrice |-> IF savedPrice # Null THEN parseFloat(savedPrice)
                        ELSE JsNumber(62300),
       investment |->
         IF savedInvestment # Null THEN JSONparse(savedInvestment)
         ELSE IF evaluated
           THEN JsObject(NewInvestment(schedule, loadedTransactions.value,
                                       62300, now))
           ELSE Null,
       transactions |-> loadedTransactions,
       dividends |->
         IF savedDividends # Null THEN JSONparse(savedDividends)
         ELSE IF evaluated
           THEN JsArray(calculateDividendsFromTransactions(
                          schedule, loadedTransactions.value))
           ELSE JsArray(<<>>)]

\* the page is loaded again from the link of its session; the render of
\* the loaded state throws before an effect could save it
Reload ==
  /\ ~ReadOnly
  /\ Rendering
  /\ loaded' = LoadSession(storage, sessionId)
  /\ refresh' = Null
  /\ dividendFetch' = Null
  /\ csvImport' = Null
  /\ overtaken' = 0
  /\ lastOp' = "reload"
  /\ UNCHANGED <<browser, clock, sessionId, mode, ledger, storage>>

\* the functions of the hook that change the portfolio or the session
Mutators ==
  {"addTransaction", "updateTransaction", "removeTransaction",
   "clearAllTransactions", "updateHoldings", "updateCurrentPrice",
   "updateDividendData", "addTransactionsBatch", "createNewSession"}

\* a function of the hook is called on a page that is read-only
ReadOnlyCall(op, id, formData, newPrice) ==
  /\ ReadOnly
  /\ \/ /\ op = "addTransaction"
        /\ addTransaction(Render, WithAmount(formData))
        /\ UNCHANGED sessionId
     \/ /\ op = "updateTransaction"
        /\ updateTransaction(Render, id, WithAmount(formData))
        /\ UNCHANGED sessionId
     \/ /\ op = "removeTransaction"
        /\ removeTransaction(Render, id)
        /\ UNCHANGED sessionId
     \/ /\ op = "clearAllTransactions"
        /\ clearAllTransactions
        /\ UNCHANGED sessionId
     \/ /\ op = "updateHoldings"
        /\ updateHoldings(Render, formData.quantity, formData.price)
        /\ UNCHANGED sessionId
     \/ /\ op = "updateCurrentPrice"
        /\ updateCurrentPrice(Render, newPrice)
        /\ UNCHANGED sessionId
     \/ /\ op = "updateDividendData"
        /\ updateDividendData(Render, <<[date |-> now, amount |-> 977]>>,
                              newPrice)
        /\ UNCHANGED sessionId
     \/ /\ op = "addTransactionsBatch"
        /\ addTransactionsBatch(Render, <<WithAmount(formData)>>)
        /\ UNCHANGED sessionId
     \/ /\ op = "createNewSession"
        /\ createNewSession
  /\ lastOp' = op
  /\ UNCHANGED <<browser, loaded, clock, mode, pending, overtaken>>
  /\ SaveEffects(IF op = "clearAllTransactions" THEN removeSessionItems
                 ELSE storage)

\* StorageManager.getULTYSessions: one entry for each key that starts with
\* 'ulty_'; the words after the prefix are split at the underscores, the
\* first is the type and the second the session id
getULTYSessions(items) ==
  { [key |-> key,
     type |-> Tail(key)[1],
     sessionId |-> IF Len(Tail(key)) >= 2 THEN Tail(key)[2] ELSE "unknown",
     lastModified |-> JSONparse(items[key]).lastModified] :
    key \in { k \in DOMAIN items : Head(k) = "ulty" } }

\* the session ids cleanupOldSessions groups the entries by
SessionGroups(items) == { s.sessionId : s \in getULTYSessions(items) }

\* the latest time of the entries of a group
Latest(items, group) ==
  LET times == { s.lastModified :
                 s \in { e \in getULTYSessions(items) :
                         e.sessionId = group } }
  IN  CHOOSE t \in times : \A u \in times : u <= t

\* the orders sortedGroups can have: latest first, groups of the same time
\* in the order the browser enumerates the keys of localStorage
GroupOrders(items) ==
  LET groups == SessionGroups(items)
      n == Cardinality(groups)
  IN  { order \in [1..n -> groups] :
          /\ \A i, j \in 1..n : i # j => order[i] # order[j]
          /\ \A i, j \in 1..n :
               i < j => Latest(items, order[i]) >= Latest(items, order[j]) }

\* StorageManager.cleanupOldSessions: the keys of the groups after the
\* first keepRecentCount are removed
cleanupOldSessions(items, keepRecentCount, sortedGroups) ==
  LET toDelete ==
        { sortedGroups[i] : i \in (keepRecentCount + 1)..Len(sortedGroups) }
      removed == { s.key : s \in { e \in getULTYSessions(items) :
                                   e.sessionId \in toDelete } }
  IN  [k \in DOMAIN items \ removed |-> items[k]]

\* the values of keepRecentCount
KeepCounts == {1, 2}

\* the storage is cleaned up while the page is open
Cleanup(keepRecentCount, sortedGroups) ==
  /\ ~ReadOnly
  /\ Rendering
  /\ lastOp' = "cleanupOldSessions"
  /\ UNCHANGED <<browser, loaded, clock, sessionId, mode, ledger, pending,
                 overtaken>>
  /\ SaveEffects(cleanupOldSessions(storage, keepRecentCount, sortedGroups))

NextStorage ==
  \/ \E formData \in FormInputs : SubmitAdd(formData)
  \/ \E i \in 1..Len(transactions) : Remove(transactions[i].id)
  \/ ClearAll
  \/ \E shares \in HoldingShares, avgPrice \in HoldingPrices :
       SaveHoldings(shares, avgPrice)
  \/ \E editPrice \in Prices : ManualPriceUpdate(editPrice)
  \/ \E newPrice \in Prices \cup {0} : ManualDividendUpdate(newPrice)
  \/ NewSession
  \/ Reload
  \/ OpenPortableLink
  \/ OpenReadOnlyLink
  \/ \E op \in Mutators, formData \in FormInputs, newPrice \in Prices,
        id \in { transactions[i].id : i \in 1..Len(transactions) }
               \cup {IndexId(0)} :
       ReadOnlyCall(op, id, formData, newPrice)
  \/ \E keepRecentCount \in KeepCounts, sortedGroups \in GroupOrders(storage) :
       Cleanup(keepRecentCount, sortedGroups)

SpecStorage == Init /\ [][NextStorage]_vars

(***************************************************************************)
(* The evaluator on its own.  The initialisation effect of the hook loads  *)
(* the saved transactions and, when no investment was saved with them,     *)
(* calls updateInvestmentData on the loaded list: the list, the day and    *)
(* the time zone are the inputs, drawn from the sets below.                *)
(***************************************************************************)
\* the days of evaluation: before the first pay date, on the second pay
\* date, and at the end of the year
EvalDays == {Date(3, 1), Date(3, 14), Date(12, 31)}

\* the transactions of a saved list: before the first pay date, on it, and
\* between the first and the second; and a purchase after the last pay date
EvalTransactions ==
  { [date |-> day, type |-> ty, quantity |-> qty, price |-> 60000,
     amount |-> qty * 60000] :
      day \in {Date(1, 1), Date(3, 7), Date(3, 10)},
      ty \in {"buy", "sell"}, qty \in {1, 2} }
  \cup { [date |-> Date(12, 31), type |-> "buy", quantity |-> 1,
          price |-> 60000, amount |-> 60000] }

\* the saved lists, the i-th transaction carrying the id i
WithIds(list) ==
  [i \in 1..Len(list) |->
     Transaction(<<i>>, list[i].date, list[i].type, list[i].quantity,
                 list[i].price, list[i].amount)]

EvalLists ==
  { WithIds(list) :
      list \in UNION { [1..n -> EvalTransactions] : n \in 0..MaxEvalTx } }

\* the time zone changes the schedule only: the lists of more than one
\* transaction are evaluated in the UTC browser
InitEval ==
  /\ tz \in TimeZones
  /\ now \in EvalDays
  /\ clock = 2
  /\ schedule = ALL_DIVIDENDS(tz)
  /\ sessionId = 1
  /\ isReadOnly = FALSE
  /\ isPortableMode = FALSE
  /\ investment = Null
  /\ transactions \in EvalLists
  /\ (tz # "UTC" => Len(transactions) <= 1)
  /\ dividends = <<>>
  /\ currentPrice = 62300
  /\ refresh = Null
  /\ dividendFetch = Null
  /\ csvImport = Null
  /\ overtaken = 0
  /\ lastOp = "init"
  /\ storage = SavedSession(<<>>, sessionId, currentPrice, investment,
                            transactions, dividends, now)
  /\ loaded = Null

\* updateInvestmentData(loadedTransactions, currentSessionId)
Evaluate ==
  /\ lastOp = "init"
  /\ updateInvestmentData(Render, transactions)
  /\ lastOp' = "updateInvestmentData"
  /\ UNCHANGED <<browser, loaded, clock, sessionId, mode, currentPrice, pending,
                 overtaken>>
  /\ SaveEffects(storage)

\* a price typed in the PriceUpdater after the evaluation
Reprice(editPrice) ==
  /\ lastOp = "updateInvestmentData"
  /\ updateCurrentPrice(Render, editPrice)
  /\ lastOp' = "updateCurrentPrice"
  /\ UNCHANGED <<browser, loaded, clock, sessionId, mode, pending, overtaken>>
  /\ SaveEffects(storage)

\* the same list is evaluated once more, at the same price and time
Reevaluate ==
  /\ lastOp = "updateInvestmentData"
  /\ updateInvestmentData(Render, transactions)
  /\ lastOp' = "reevaluated"
  /\ UNCHANGED <<browser, loaded, clock, sessionId, mode, currentPrice, pending,
                 overtaken>>
  /\ SaveEffects(storage)

NextEval ==
  \/ Evaluate
  \/ Reevaluate
  \/ \E editPrice \in Prices : Reprice(editPrice)

SpecEval == InitEval /\ [][NextEval]_vars

(***************************************************************************)
(* Properties of the evaluator (checked under SpecEval).                   *)
(***************************************************************************)
\* the sum of f[i] over the indices i of a finite set
RECURSIVE SumOver(_, _)
SumOver(indices, f) ==
  IF indices = {} THEN 0
  ELSE LET i == CHOOSE j \in indices : TRUE
       IN  f[i] + SumOver(indices \ {i}, f)

\* the transactions of the ledger dated strictly before a day
StrictlyBefore(day) ==
  { i \in 1..Len(transactions) : transactions[i].date < day }

SignedQuantity ==
  [i \in 1..Len(transactions) |->
     IF transactions[i].type = "buy" THEN transactions[i].quantity
     ELSE 0 - transactions[i].quantity]

SignedAmount ==
  [i \in 1..Len(transactions) |->
     IF transactions[i].type = "buy" THEN transactions[i].amount
     ELSE 0 - transactions[i].amount]

\* the ledger has just been evaluated
Evaluated == lastOp = "updateInvestmentData"

\* C1: for every schedule entry D, the shares and the cost basis of D's
\* snapshot count exactly the transactions dated strictly before D's pay
\* date, a buy as +quantity and a sell as -quantity (the snapshot keeps the
\* cost basis as adjustedCostBasis + cumulativeROC); when no transaction is
\* dated before the pay date, as for a purchase made on the pay date, the
\* shares and the distributionAmount are 0.
C1_SharesCountStrictlyEarlierTransactions ==
  Evaluated /\ transactions # <<>> =>
    /\ Len(dividends) = Len(schedule)
    /\ \A k \in 1..Len(dividends) :
         /\ dividends[k].payDate = schedule[k].date
         /\ dividends[k].shares =
              SumOver(StrictlyBefore(schedule[k].date), SignedQuantity)
         /\ dividends[k].adjustedCostBasis + dividends[k].cumulativeROC =
              SumOver(StrictlyBefore(schedule[k].date), SignedAmount)
         /\ (StrictlyBefore(schedule[k].date) = {} =>
               dividends[k].shares = 0 /\ dividends[k].distributionAmount = 0)

\* a purchase made on the first pay date: it earns nothing on that date and
\* counts for the next one
C1_Witness ==
  /\ Evaluated
  /\ \E i \in 1..Len(transactions) :
       transactions[i].type = "buy" /\ transactions[i].date = schedule[1].date
  /\ StrictlyBefore(schedule[1].date) = {}
  /\ dividends[1].shares = 0
  /\ dividends[1].distributionAmount = 0
  /\ dividends[2].shares > 0

\* the schedule entries paid by the day of evaluation to a holder of shares
RealizedEntries ==
  { k \in 1..Len(schedule) :
      schedule[k].date <= now /\ dividends[k].shares > 0 }

\* C2: the totalDividends and the cumulativeROC of the investment that
\* updateInvestmentData builds are the sums of shares x amount and of
\* shares x amount x rocPercentage / 100 over exactly the schedule entries
\* with pay date <= now and shares > 0.
C2_AggregatesSumRealizedEntries ==
  Evaluated /\ investment # Null =>
    /\ investment.totalDividends =
         SumOver(RealizedEntries,
                 [k \in 1..Len(schedule) |->
                    dividends[k].shares * schedule[k].amount])
    /\ investment.cumulativeROC =
         SumOver(RealizedEntries,
                 [k \in 1..Len(schedule) |->
                    (dividends[k].shares * schedule[k].amount
                       * schedule[k].rocPercentage) \div 100])

\* some dividends are paid and some are not: the aggregate is positive and
\* below the running total of the last snapshot
C2_Witness ==
  /\ Evaluated
  /\ investment # Null
  /\ investment.cumulativeROC > 0
  /\ investment.cumulativeROC < dividends[Len(dividends)].cumulativeROC
  /\ \E k \in 1..Len(schedule) :
       schedule[k].date > now /\ dividends[k].shares > 0

\* the cumulativeROC of the snapshot before the k-th
CumulativeBefore(k) == IF k = 1 THEN 0 ELSE dividends[k - 1].cumulativeROC

\* C3, as stated: the cumulativeROC of a snapshot exceeds that of the
\* snapshot before it only when the snapshot holds shares and its pay date
\* is not after the day of evaluation.
C3_AsStated ==
  Evaluated =>
    \A k \in 1..Len(dividends) :
      dividends[k].cumulativeROC > CumulativeBefore(k) =>
        dividends[k].shares > 0 /\ dividends[k].payDate <= now

\* C3, amended: the cumulativeROC of a snapshot is that of the snapshot
\* before it plus the snapshot's rocPortion, and exceeds it only when the
\* snapshot holds shares, whether the pay date is past or future; only the
\* cumulativeROC of the investment leaves the future entries out.
C3_RunningTotalOverAllEntries ==
  Evaluated =>
    /\ \A k \in 1..Len(dividends) :
         /\ dividends[k].cumulativeROC =
              CumulativeBefore(k) + dividends[k].rocPortion
         /\ (dividends[k].cumulativeROC > CumulativeBefore(k) =>
               dividends[k].shares > 0)
    /\ (investment # Null =>
          investment.cumulativeROC <=
            dividends[Len(dividends)].cumulativeROC)

\* a snapshot of a dividend not paid yet raises the running total
C3_Witness ==
  /\ Evaluated
  /\ \E k \in 1..Len(dividends) :
       /\ dividends[k].payDate > now
       /\ dividends[k].isEstimated
       /\ dividends[k].shares > 0
       /\ dividends[k].cumulativeROC > CumulativeBefore(k)

\* C4: along the snapshots, in ascending order of pay date, cumulativeROC
\* never decreases, for every transaction list.
C4_CumulativeROCNonDecreasing ==
  Evaluated =>
    \A k \in 1..Len(dividends) :
      /\ dividends[k].cumulativeROC >= CumulativeBefore(k)
      /\ (k > 1 => dividends[k].payDate > dividends[k - 1].payDate)

\* a ledger whose sells exceed its buys, next to snapshots that did rise
C4_Witness ==
  /\ Evaluated
  /\ \E k \in 1..Len(dividends) : dividends[k].shares < 0
  /\ \E k \in 1..Len(dividends) :
       dividends[k].cumulativeROC > CumulativeBefore(k)

\* the fields of the investment that depend on the price
PriceDependentFields ==
  {"marketValue", "capitalGainLoss", "adjustedCapitalGainLoss",
   "totalProfitLoss", "adjustedTotalProfitLoss", "roi", "adjustedRoi"}

\* the fields of the investment that do not
PriceIndependentFields ==
  {"shares", "avgPrice", "costBasis", "adjustedCostBasis", "totalDividends",
   "cumulativeROC", "breakEvenPrice"}

\* C5: applied to a non-null investment obtained from a transaction list,
\* updateCurrentPrice(p) yields the price-dependent fields of the full
\* evaluation of that list at price p and at the same time of evaluation.
C5_RepriceAgreesWithEvaluation ==
  lastOp = "updateCurrentPrice" /\ investment # Null =>
    LET full == NewInvestment(schedule, transactions, currentPrice, now)
    IN  /\ investment.currentPrice = currentPrice
        /\ \A f \in PriceDependentFields : investment[f] = full[f]

\* an investment with dividends received, repriced away from the price it
\* was evaluated at
C5_Witness ==
  /\ lastOp = "updateCurrentPrice"
  /\ investment # Null
  /\ investment.totalDividends > 0
  /\ investment.currentPrice # 62300
  /\ investment.marketValue = investment.shares * currentPrice
  /\ investment.roi # 0

(***************************************************************************)
(* Properties of the session (checked under Spec).                         *)
(***************************************************************************)
\* the from-scratch evaluation of the ledger at the current price and day
FromScratch ==
  IF transactions = <<>>
    THEN [investment |-> Null, dividends |-> <<>>]
    ELSE [investment |->
            NewInvestment(schedule, transactions, currentPrice, now),
          dividends |->
            calculateDividendsFromTransactions(schedule, transactions)]

\* C6, as stated: after addTransaction, updateTransaction,
\* removeTransaction, addTransactionsBatch and updateHoldings, investment
\* and dividends are the from-scratch evaluation of the resulting
\* transaction list at the current price.
C6_AsStated ==
  lastOp \in {"addTransaction", "updateTransaction", "removeTransaction",
              "addTransactionsBatch", "updateHoldings"} =>
    investment = FromScratch.investment /\ dividends = FromScratch.dividends

\* C7: whenever the transaction list is empty (the last transaction was
\* removed, the transactions were cleared, a session was opened), there is
\* no position: investment is null and there are no snapshots, whatever the
\* current price.
C7_EmptyLedgerHasNoPosition ==
  transactions = <<>> => investment = Null /\ dividends = <<>>

\* the last transaction was removed, at a price that is not the default
C7_Witness ==
  /\ lastOp = "removeTransaction"
  /\ transactions = <<>>
  /\ investment = Null
  /\ dividends = <<>>
  /\ currentPrice # 62300

\* C8: when the network fails a price refresh or a dividend fetch, the
\* service returns a result with success = false, and the step of the
\* callback leaves transactions, investment, dividends and currentPrice as
\* they were.
C8_FailedFetchLeavesLedger ==
  [][ lastOp' \in {"refreshFailed", "dividendFetchFailed"} =>
        /\ UNCHANGED ledger
        /\ ~getRealTimeQuote(Failed, Failed).success
        /\ ~fetchLatestDividends(Failed, Failed, Failed).success ]_vars

\* a refresh failed over a ledger with a position
C8_Witness ==
  /\ lastOp = "refreshFailed"
  /\ investment # Null
  /\ transactions # <<>>
  /\ refresh = Null

\* C9: a step of updateCurrentPrice changes currentPrice and the
\* price-dependent fields of the investment only: the other fields of the
\* investment, the transactions and the snapshots stay, and a null
\* investment stays null.
C9_RepriceFrame ==
  [][ lastOp' \in {"updateCurrentPrice", "refreshAnswered"} =>
        /\ transactions' = transactions
        /\ dividends' = dividends
        /\ (investment = Null => investment' = Null)
        /\ (investment # Null =>
              /\ investment' # Null
              /\ \A f \in PriceIndependentFields :
                   investment'[f] = investment[f]) ]_vars

\* the answer of a refresh reprices an investment
C9_Witness ==
  /\ lastOp = "refreshAnswered"
  /\ investment # Null
  /\ investment.currentPrice = currentPrice
  /\ currentPrice # 62300
  /\ investment.shares > 0

\* C10: updateHoldings(shares, avgPrice) leaves exactly one transaction, a
\* buy dated today of quantity shares at price avgPrice and of amount
\* shares x avgPrice, whatever the list was, and investment and dividends
\* are the full evaluation of that list.
C10_HoldingsReplaceLedger ==
  lastOp = "updateHoldings" =>
    /\ \E shares \in HoldingShares, avgPrice \in HoldingPrices :
         transactions =
           << Transaction(HoldingsId, now, "buy", shares, avgPrice,
                          shares * avgPrice) >>
    /\ investment = FromScratch.investment
    /\ dividends = FromScratch.dividends

\* the holdings were saved after two transactions had been entered
C10_Witness ==
  /\ lastOp = "updateHoldings"
  /\ clock = 4
  /\ Len(transactions) = 1
  /\ transactions[1].id = HoldingsId
  /\ investment # Null
  /\ investment.shares = transactions[1].quantity


EstimatedEntries == { i \in 1..Len(schedule) : schedule[i].isEstimated }

\* the date of the last historical entry
LastHistoricalDate == ULTY_2025_DIVIDENDS[Len(ULTY_2025_DIVIDENDS)].date

\* the dates lastHistorical + 7k, k >= 1, up to the end of the year and
\* outside the holiday windows
ExpectedEstimatedDates ==
  { d \in (LastHistoricalDate + 1)..Date(12, 31) :
      /\ (d - LastHistoricalDate) % 7 = 0
      /\ ~isHoliday(MonthOf(d), DayOfMonth(d)) }

\* C12, as stated: the dates of the estimated entries are exactly the dates
\* lastHistorical + 7k (k >= 1) not after Dec 31 and not on July 4,
\* Nov 25-30 or Dec 23-31.
C12_AsStated ==
  { schedule[i].date : i \in EstimatedEntries } = ExpectedEstimatedDates

\* C13: every estimated entry carries the truncated mean of the amounts of
\* the six most recent historical entries, rocPercentage = 100 and
\* isEstimated = true, and the entries of the historical table are not
\* flagged estimated.
C13_EstimatedEntriesCarryTheMean ==
  LET n == Len(ULTY_2025_DIVIDENDS)
      amounts == [i \in 1..n |-> ULTY_2025_DIVIDENDS[i].amount]
      mean == SumOver((n - 5)..n, amounts) \div 6
  IN  /\ \A i \in EstimatedEntries :
           /\ schedule[i].amount = mean
           /\ schedule[i].rocPercentage = 100
           /\ i > n
      /\ \A i \in 1..Len(schedule) :
           i > n => schedule[i].isEstimated
      /\ \A i \in 1..n : ~ULTY_2025_DIVIDENDS[i].isEstimated

\* a schedule with estimated entries has been used by an evaluation
C13_Witness ==
  /\ lastOp = "updateInvestmentData"
  /\ EstimatedEntries # {}
  /\ schedule[Len(schedule)].isEstimated
  /\ schedule[Len(schedule)].amount = 937
  /\ dividends # <<>>
  /\ dividends[Len(dividends)].isEstimated
  /\ dividends[Len(dividends)].distributionRate = 937

\* C14: the schedule is the historical table followed by the estimated
\* entries, and its dates are strictly ascending, so that every historical
\* entry precedes every estimated one and no date appears twice.
C14_ScheduleStrictlyAscending ==
  LET n == Len(ULTY_2025_DIVIDENDS)
  IN  /\ Len(schedule) >= n
      /\ SubSeq(schedule, 1, n) = ULTY_2025_DIVIDENDS
      /\ \A i \in (n + 1)..Len(schedule) : schedule[i].isEstimated
      /\ \A i \in 1..(Len(schedule) - 1) :
           schedule[i].date < schedule[i + 1].date

\* the schedule of a browser whose local dates are not the UTC dates
C14_Witness ==
  /\ tz = "Australia/Sydney"
  /\ Len(schedule) > Len(ULTY_2025_DIVIDENDS)
  /\ schedule[Len(ULTY_2025_DIVIDENDS) + 1].date > LastHistoricalDate
  /\ lastOp = "updateInvestmentData"
  /\ Len(dividends) = Len(schedule)


(***************************************************************************)
(* Further properties of the evaluator (checked under SpecEval).           *)
(***************************************************************************)
\* C15, as stated: in every snapshot distributionAmount = shares x
\* distributionRate and rocPortion = distributionAmount x rocPercentage /
\* 100, for every share count the transaction list can produce.
C15_AsStated ==
  Evaluated =>
    \A k \in 1..Len(dividends) :
      /\ dividends[k].distributionAmount =
           dividends[k].shares * dividends[k].distributionRate
      /\ dividends[k].rocPortion =
           (dividends[k].distributionAmount * dividends[k].rocPercentage)
             \div 100

\* C15, amended: distributionAmount = shares x distributionRate when the
\* snapshot holds shares > 0, and 0 when the share count is zero or negative
\* (more sold than bought before the pay date); rocPortion =
\* distributionAmount x rocPercentage / 100 in both cases.
C15_DistributionOnSharesHeld ==
  Evaluated =>
    \A k \in 1..Len(dividends) :
      /\ dividends[k].distributionRate = schedule[k].amount
      /\ dividends[k].rocPercentage = schedule[k].rocPercentage
      /\ dividends[k].distributionAmount =
           IF dividends[k].shares > 0
             THEN dividends[k].shares * schedule[k].amount
             ELSE 0
      /\ dividends[k].rocPortion =
           (dividends[k].distributionAmount * schedule[k].rocPercentage)
             \div 100

\* one share held on the first pay date, and more sold than bought by a
\* later one
C15_Witness ==
  /\ Evaluated
  /\ dividends # <<>>
  /\ dividends[1].shares = 1
  /\ dividends[1].distributionAmount = 4653
  /\ dividends[1].rocPortion = 4653
  /\ \E k \in 1..Len(dividends) :
       dividends[k].shares < 0 /\ dividends[k].distributionAmount = 0

\* the state has just been evaluated or repriced
EvaluatedOrRepriced ==
  lastOp \in {"updateInvestmentData", "reevaluated", "updateCurrentPrice"}

\* C16: the adjusted cost basis is the cost basis less the cumulative ROC,
\* in every snapshot (cost basis of the transactions before the pay date)
\* and in the investment (cost basis of all transactions), without a floor
\* at zero: it is negative exactly when the cumulative ROC exceeds the cost
\* basis.
C16_AdjustedCostBasisNotClamped ==
  EvaluatedOrRepriced /\ investment # Null =>
    /\ investment.adjustedCostBasis =
         SumOver(1..Len(transactions), SignedAmount)
           - investment.cumulativeROC
    /\ (investment.adjustedCostBasis < 0 <=>
          investment.cumulativeROC > investment.costBasis)
    /\ \A k \in 1..Len(dividends) :
         LET costBasisAtDate ==
               SumOver(StrictlyBefore(schedule[k].date), SignedAmount)
         IN  /\ dividends[k].adjustedCostBasis =
                  costBasisAtDate - dividends[k].cumulativeROC
             /\ (dividends[k].adjustedCostBasis < 0 <=>
                   dividends[k].cumulativeROC > costBasisAtDate)

\* a position bought and sold at the same price after a dividend: the cost
\* basis is zero, the capital returned is not, and the investment was
\* repriced in that state
C16_Witness ==
  /\ lastOp = "updateCurrentPrice"
  /\ investment # Null
  /\ investment.costBasis = 0
  /\ investment.cumulativeROC > 0
  /\ investment.adjustedCostBasis < 0
  /\ investment.adjustedRoi = 0
  /\ \E k \in 1..Len(dividends) : dividends[k].adjustedCostBasis < 0


\* C17: the shares and the cost basis of the investment are the signed sums
\* (buy +, sell -) of quantity and amount over all the transactions of the
\* list, those dated on or after the pay dates and those dated after the
\* day of evaluation included.
C17_HoldingSumsAllTransactions ==
  EvaluatedOrRepriced /\ investment # Null =>
    /\ investment.shares = SumOver(1..Len(transactions), SignedQuantity)
    /\ investment.costBasis = SumOver(1..Len(transactions), SignedAmount)

\* a purchase dated after the day of evaluation and after the last pay date
\* counts in the holding and in no snapshot
C17_Witness ==
  /\ Evaluated
  /\ investment # Null
  /\ \E i \in 1..Len(transactions) :
       /\ transactions[i].date > now
       /\ transactions[i].date > schedule[Len(schedule)].date
       /\ transactions[i].type = "buy"
  /\ investment.shares = dividends[Len(dividends)].shares + 1
  /\ investment.shares > 1

\* C18: no quotient is taken over a denominator that is not positive: the
\* investment has avgPrice = 0 and breakEvenPrice = 0 when its shares are not
\* positive, roi = 0 when its cost basis is not positive and adjustedRoi = 0
\* when its adjusted cost basis is not positive, after updateInvestmentData
\* and after updateCurrentPrice, and a snapshot has breakEvenPrice = 0 when
\* its shares are not positive.
C18_NoDivisionByNonPositive ==
  EvaluatedOrRepriced /\ investment # Null =>
    /\ (investment.shares <= 0 =>
          investment.avgPrice = 0 /\ investment.breakEvenPrice = 0)
    /\ (investment.costBasis <= 0 => investment.roi = 0)
    /\ (investment.adjustedCostBasis <= 0 => investment.adjustedRoi = 0)
    /\ \A k \in 1..Len(dividends) :
         dividends[k].shares <= 0 =>
           dividends[k].breakEvenPrice = 0 /\ dividends[k].adjCostBasis = 0

\* a list of sells only, repriced: shares and cost basis are negative and
\* the profit is not zero
C18_Witness ==
  /\ lastOp = "updateCurrentPrice"
  /\ investment # Null
  /\ investment.shares < 0
  /\ investment.costBasis < 0
  /\ investment.adjustedCostBasis < 0
  /\ investment.totalProfitLoss # 0
  /\ investment.roi = 0
  /\ investment.adjustedRoi = 0
  /\ investment.avgPrice = 0

\* the schedule entries before whose pay date the list holds no share after
\* a sell
ClosedBefore ==
  { k \in 1..Len(schedule) :
      /\ \E i \in StrictlyBefore(schedule[k].date) :
           transactions[i].type = "sell"
      /\ SumOver(StrictlyBefore(schedule[k].date), SignedQuantity) = 0 }

\* the entries paid by the day of evaluation to the shares the transactions
\* before the pay date add up to
PaidEntries ==
  { j \in 1..Len(schedule) :
      /\ schedule[j].date <= now
      /\ SumOver(StrictlyBefore(schedule[j].date), SignedQuantity) > 0 }

\* C19: when the transactions before a pay date net to zero shares after a
\* sell, the snapshot of that dividend has shares 0, distributionAmount 0
\* and rocPortion 0, its cumulativeROC is that of the snapshot before it,
\* and the totalDividends and cumulativeROC of the investment are the sums
\* over the other entries.
C19_ClosedPositionEarnsNothing ==
  Evaluated /\ investment # Null =>
    \A k \in ClosedBefore :
      /\ dividends[k].shares = 0
      /\ dividends[k].distributionAmount = 0
      /\ dividends[k].rocPortion = 0
      /\ dividends[k].cumulativeROC = CumulativeBefore(k)
      /\ investment.totalDividends =
           SumOver(PaidEntries \ {k},
                   [j \in 1..Len(schedule) |->
                      dividends[j].distributionAmount])
      /\ investment.cumulativeROC =
           SumOver(PaidEntries \ {k},
                   [j \in 1..Len(schedule) |-> dividends[j].rocPortion])

\* two shares held on the first pay date and sold before the second, which
\* is paid by the day of evaluation
C19_Witness ==
  /\ Evaluated
  /\ investment # Null
  /\ 2 \in ClosedBefore
  /\ schedule[2].date <= now
  /\ dividends[1].shares = 2
  /\ dividends[2].shares = 0
  /\ dividends[2].cumulativeROC = dividends[1].cumulativeROC
  /\ dividends[1].cumulativeROC > 0
  /\ investment.totalDividends = dividends[1].distributionAmount


(***************************************************************************)
(* Further properties of the session (checked under Spec).                 *)
(***************************************************************************)
\* C20, as stated: in every reachable state every transaction of the list
\* has quantity > 0, price > 0 and amount = quantity x price.
C20_AsStated ==
  \A i \in 1..Len(transactions) :
    /\ transactions[i].quantity > 0
    /\ transactions[i].price > 0
    /\ transactions[i].amount = transactions[i].quantity * transactions[i].price


\* the list without its i-th element
WithoutIndex(list, i) == SubSeq(list, 1, i - 1) \o SubSeq(list, i + 1, Len(list))

\* C21: the ids of the list are pairwise distinct, whichever of
\* addTransaction, addTransactionsBatch and updateHoldings made them; a step
\* of updateTransaction keeps the length and the order of the list and
\* replaces exactly one transaction by the submitted one under the same id,
\* and a step of removeTransaction removes exactly one transaction.
C21_EditAndRemoveTouchOneTransaction ==
  [][ /\ \A i, j \in 1..Len(transactions) :
           transactions[i].id = transactions[j].id => i = j
      /\ (lastOp' = "updateTransaction" =>
            /\ Len(transactions') = Len(transactions)
            /\ \E i \in 1..Len(transactions) :
                 /\ transactions'[i].id = transactions[i].id
                 /\ \E formData \in FormInputs :
                      transactions'[i] =
                        Transaction(transactions[i].id, formData.date,
                                    formData.type, formData.quantity,
                                    formData.price,
                                    formData.quantity * formData.price)
                 /\ \A j \in 1..Len(transactions) :
                      j # i => transactions'[j] = transactions[j])
      /\ (lastOp' = "removeTransaction" =>
            \E i \in 1..Len(transactions) :
              transactions' = WithoutIndex(transactions, i)) ]_vars

\* a list that holds the transaction of updateHoldings and one of
\* addTransaction, after an edit that made the two differ
C21_Witness ==
  /\ lastOp = "updateTransaction"
  /\ Len(transactions) = 2
  /\ transactions[1].id = HoldingsId
  /\ transactions[2].id = NowId(clock - 1)
  /\ transactions[1].date # transactions[2].date
  /\ transactions[1].quantity # transactions[2].quantity


\* the rows of the import that is waiting for the parser pass the validation
EveryRowPasses ==
  \A i \in 1..Len(csvImport.rows) :
    /\ csvImport.rows[i].date > 0
    /\ csvImport.rows[i].type \in {"buy", "sell"}
    /\ csvImport.rows[i].quantity > 0
    /\ csvImport.rows[i].price > 0

\* C22: when the parser hands over the rows of a CSV import, either every
\* row passes the validation and all of them are appended, in order, by one
\* call of addTransactionsBatch, or some row fails and transactions,
\* investment, dividends and currentPrice stay as they were.
C22_CsvImportAllOrNothing ==
  [][ csvImport # Null /\ csvImport' = Null =>
        LET n == Len(csvImport.rows)
            m == Len(transactions')
        IN  IF EveryRowPasses
              THEN /\ lastOp' = "addTransactionsBatch"
                   /\ m >= n
                   /\ \A i \in 1..n :
                        transactions'[m - n + i] =
                          Transaction(BatchId(clock, i - 1),
                                      csvImport.rows[i].date,
                                      csvImport.rows[i].type,
                                      csvImport.rows[i].quantity,
                                      csvImport.rows[i].price,
                                      csvImport.rows[i].quantity
                                        * csvImport.rows[i].price)
              ELSE /\ lastOp' = "importFailed"
                   /\ UNCHANGED ledger ]_vars

\* a file with a bad row was refused over a ledger with a position
C22_Witness ==
  /\ lastOp = "importFailed"
  /\ csvImport = Null
  /\ Len(transactions) = 1
  /\ investment # Null
  /\ clock = 3


\* C23: the evaluation of a non-empty transaction list leaves a non-null
\* investment and exactly one snapshot for each entry of ALL_DIVIDENDS, in
\* the order of the schedule: the i-th snapshot has the payDate, the
\* distributionRate, the rocPercentage and the isEstimated flag of the i-th
\* entry.
C23_OneSnapshotPerScheduleEntry ==
  lastOp # "init" /\ transactions # <<>> =>
    /\ investment # Null
    /\ schedule = ALL_DIVIDENDS(tz)
    /\ Len(dividends) = Len(schedule)
    /\ \A i \in 1..Len(schedule) :
         /\ dividends[i].payDate = schedule[i].date
         /\ dividends[i].distributionRate = schedule[i].amount
         /\ dividends[i].rocPercentage = schedule[i].rocPercentage
         /\ dividends[i].isEstimated = schedule[i].isEstimated

\* one purchase on 7 March was evaluated in New York: the entries before
\* it have a snapshot without shares, the estimated entries have theirs
C23_Witness ==
  /\ Evaluated
  /\ tz = "America/New_York"
  /\ Len(transactions) = 1
  /\ transactions[1].date = Date(3, 7)
  /\ transactions[1].type = "buy"
  /\ investment # Null
  /\ Len(dividends) = Len(schedule)
  /\ dividends[1].shares = 0
  /\ dividends[Len(dividends)].shares > 0
  /\ dividends[Len(dividends)].isEstimated


\* C24: persistence round trip.  After any mutations of an editable session,
\* the page loaded again with the same session id has the same transaction
\* list (an array of the same transactions in the same order), the same
\* current price and the investment that was saved last.
C24_AsStated ==
  lastOp = "reload" =>
    /\ loaded.transactions = JsArray(transactions)
    /\ loaded.currentPrice = JsNumber(currentPrice)
    /\ (investment # Null => loaded.investment = JsObject(investment))


\* C25: on a page in read-only or portable mode every mutator
\* (addTransaction, updateTransaction, removeTransaction,
\* clearAllTransactions, updateHoldings, updateCurrentPrice,
\* updateDividendData, addTransactionsBatch, createNewSession) is a no-op:
\* once the page is initialised, no step changes transactions, investment,
\* dividends or currentPrice, the page stays read-only, and no item of
\* localStorage is written or removed.
C25_ReadOnlyPageChangesNothing ==
  [][ ReadOnly =>
        /\ lastOp' \in Mutators
        /\ UNCHANGED <<ledger, storage, sessionId, mode>> ]_vars

\* clearAllTransactions was called on the page of a read-only link that
\* shows a position: the transactions are there, and so are the items of
\* the session the link was made from
C25_Witness ==
  /\ isReadOnly
  /\ ~isPortableMode
  /\ lastOp = "clearAllTransactions"
  /\ Len(transactions) = 2
  /\ investment # Null
  /\ dividends # <<>>
  /\ getStorageKey(TRANSACTIONS, sessionId - 1) \in DOMAIN storage
  /\ getStorageKey(INVESTMENT, sessionId - 1) \in DOMAIN storage


\* C26: when transactions are added, edited or removed while
\* PriceUpdater.handleRefresh waits for the quote, the investment after the
\* refresh is the one of the holdings of that moment at the new price:
\* marketValue = shares * currentPrice and capitalGainLoss = marketValue -
\* costBasis.
C26_AsStated ==
  lastOp = "refreshAnswered" /\ investment # Null =>
    /\ investment.marketValue = investment.shares * currentPrice
    /\ investment.capitalGainLoss =
         investment.marketValue - investment.costBasis


\* C27: in an editable session, after any sequence of addTransaction,
\* removeTransaction, updateCurrentPrice, updateHoldings and
\* updateDividendData (with or without a new price), an investment that is
\* not null carries the current price of the hook, and its marketValue is
\* its shares at that price.
C27_AsStated ==
  ~ReadOnly /\ investment # Null =>
    /\ investment.currentPrice = currentPrice
    /\ investment.marketValue = investment.shares * currentPrice


\* C28: in every reachable state with an investment, adjustedTotalProfitLoss
\* equals totalProfitLoss, which is marketValue - costBasis +
\* totalDividends: the cumulativeROC subtracted from the dividends comes
\* back through adjustedCapitalGainLoss.
C28_AsStated ==
  investment # Null =>
    /\ investment.adjustedTotalProfitLoss = investment.totalProfitLoss
    /\ investment.totalProfitLoss =
         investment.marketValue - investment.costBasis
           + investment.totalDividends


\* the keys of the four STORAGE_KEYS a session has in localStorage, and the
\* sessions that have some
KeysOfSession(items, id) ==
  { getStorageKey(baseKey, id) : baseKey \in STORAGE_KEYS } \cap DOMAIN items

StoredSessions(items) ==
  { id \in 1..(MaxClock + 2) : KeysOfSession(items, id) # {} }

\* C29: cleanupOldSessions(k) keeps every storage key (ulty_investment_,
\* ulty_transactions_, ulty_dividends_, ulty_current_price_) of the k
\* sessions modified last and removes every key of every other session: no
\* session is left with some of its keys, and at most k sessions are left.
C29_AsStated ==
  [][ lastOp' = "cleanupOldSessions" =>
        /\ \A id \in StoredSessions(storage) :
             \/ KeysOfSession(storage', id) = KeysOfSession(storage, id)
             \/ KeysOfSession(storage', id) = {}
        /\ \E k \in KeepCounts :
             /\ Cardinality(StoredSessions(storage')) <= k
             /\ Cardinality(StoredSessions(storage')) =
                  IF Cardinality(StoredSessions(storage)) <= k
                    THEN Cardinality(StoredSessions(storage))
                    ELSE k ]_vars


\* the snapshots whose pay date is not after now
SnapshotsPaidByNow == { k \in 1..Len(dividends) : dividends[k].payDate <= now }

\* C30: right after an evaluation, investment.cumulativeROC is the
\* cumulativeROC field of the last snapshot with payDate <= now (0 when
\* there is none), and investment.totalDividends is the sum of
\* distributionAmount over the snapshots with payDate <= now.
C30_AggregatesReadOffTheSnapshots ==
  lastOp \in {"updateInvestmentData", "reevaluated"} /\ investment # Null =>
    /\ investment.cumulativeROC =
         IF SnapshotsPaidByNow = {} THEN 0
         ELSE dividends[CHOOSE k \in SnapshotsPaidByNow :
                          \A j \in SnapshotsPaidByNow : j <= k].cumulativeROC
    /\ investment.totalDividends =
         SumOver(SnapshotsPaidByNow,
                 [k \in 1..Len(dividends) |-> dividends[k].distributionAmount])

\* an evaluation between two pay dates: the aggregate is the running total
\* of the snapshot before now, which is positive and below the running
\* total of the last snapshot
C30_Witness ==
  /\ Evaluated
  /\ investment # Null
  /\ \E k \in 1..(Len(dividends) - 1) :
       /\ dividends[k].payDate <= now
       /\ dividends[k + 1].payDate > now
       /\ dividends[k].cumulativeROC > 0
       /\ investment.cumulativeROC = dividends[k].cumulativeROC
       /\ dividends[Len(dividends)].cumulativeROC > dividends[k].cumulativeROC
       /\ investment.totalDividends > 0

====
